---- MODULE Spec2Model ----
(***************************************************************************)
(* BucketFS: the S3-compatible REST client (plugins/s3-compatible/api.ts)  *)
(* and its SigV4 signer (plugins/s3-compatible/sigv4.ts).                  *)
(*                                                                         *)
(* Text is a sequence of tokens.  A token is a TLA+ string: one character  *)
(* where the code looks at characters (header names), or an atomic chunk   *)
(* of text where it does not (a key, a host label, a vendor message).      *)
(* SHA-256 and HMAC-SHA256 are symbolic injective constructors.            *)
(***************************************************************************)
EXTENDS Integers, Sequences, FiniteSets, TLC

(* ------------------------------ bounds -------------------------------- *)
NumKeys == 2
NumContents == 1
MaxHeaders == 2
MaxParams == 2
MaxCalls == 3
NumCacheKeys == 3
MaxClock == 2
MaxCacheCalls == 4

(* the direct calls of signRequest so far: the input and the output of each *)
VARIABLE signLog

(* --------------------------- text helpers ----------------------------- *)
LowerChars ==
    << "a", "b", "c", "d", "e", "f", "g", "h", "i", "j", "k", "l", "m",
       "n", "o", "p", "q", "r", "s", "t", "u", "v", "w", "x", "y", "z" >>

UpperChars ==
    << "A", "B", "C", "D", "E", "F", "G", "H", "I", "J", "K", "L", "M",
       "N", "O", "P", "Q", "R", "S", "T", "U", "V", "W", "X", "Y", "Z" >>

\* the lower-case form of each upper-case character
LowerOf ==
    [c \in {UpperChars[j] : j \in DOMAIN UpperChars} |->
        LowerChars[CHOOSE j \in DOMAIN UpperChars : UpperChars[j] = c]]

\* String.prototype.toLowerCase, character by character
toLowerCase(s) == [i \in DOMAIN s |-> IF s[i] \in DOMAIN LowerOf THEN LowerOf[s[i]] ELSE s[i]]

\* String.prototype.includes
Includes(s, sub) ==
    \E i \in 0..(Len(s) - Len(sub)) : SubSeq(s, i + 1, i + Len(sub)) = sub

\* position of the first occurrence of token t in s at or after from, 0 if none
IndexOf(s, t, from) ==
    LET hits == {i \in from..Len(s) : s[i] = t}
    IN  IF hits = {} THEN 0 ELSE CHOOSE i \in hits : \A j \in hits : i <= j

RECURSIVE Join(_, _)
\* Array.prototype.join
Join(parts, sep) ==
    IF Len(parts) = 0 THEN << >>
    ELSE IF Len(parts) = 1 THEN parts[1]
    ELSE parts[1] \o sep \o Join(Tail(parts), sep)

\* primary collation order of the characters header names are made of:
\* punctuation, then digits, then letters (case is a tie-break only)
PrimaryOrder ==
    << "-", "0", "1", "2", "3", "4", "5", "6", "7", "8", "9" >> \o LowerChars

PrimaryRank ==
    [c \in {PrimaryOrder[i] : i \in DOMAIN PrimaryOrder} |->
        CHOOSE i \in DOMAIN PrimaryOrder : PrimaryOrder[i] = c]

Primary(c) == PrimaryRank[IF c \in DOMAIN LowerOf THEN LowerOf[c] ELSE c]

IsUpper(c) == c \in DOMAIN LowerOf

RECURSIVE ComparePrimary(_, _)
ComparePrimary(a, b) ==
    IF Len(a) = 0 /\ Len(b) = 0 THEN 0
    ELSE IF Len(a) = 0 THEN -1
    ELSE IF Len(b) = 0 THEN 1
    ELSE IF Primary(a[1]) < Primary(b[1]) THEN -1
    ELSE IF Primary(a[1]) > Primary(b[1]) THEN 1
    ELSE ComparePrimary(Tail(a), Tail(b))

RECURSIVE CompareCase(_, _)
CompareCase(a, b) ==
    IF Len(a) = 0 \/ Len(b) = 0 THEN 0
    ELSE IF ~IsUpper(a[1]) /\ IsUpper(b[1]) THEN -1
    ELSE IF IsUpper(a[1]) /\ ~IsUpper(b[1]) THEN 1
    ELSE CompareCase(Tail(a), Tail(b))

\* String.prototype.localeCompare (root collation): primary strength first,
\* lower case before upper case when the strings differ in case only
localeCompare(a, b) ==
    LET primary == ComparePrimary(a, b)
    IN  IF primary # 0 THEN primary ELSE CompareCase(a, b)

\* Array.prototype.sort(compareFn): a stable sort; an entry is inserted after
\* every entry that does not compare greater
Sort(entries, Cmp(_, _)) ==
    LET RECURSIVE Insert(_, _)
        Insert(sorted, e) ==
            IF Len(sorted) = 0 THEN << e >>
            ELSE IF Cmp(sorted[1], e) > 0 THEN << e >> \o sorted
            ELSE << sorted[1] >> \o Insert(Tail(sorted), e)
        RECURSIVE SortPrefix(_)
        SortPrefix(n) ==
            IF n = 0 THEN << >> ELSE Insert(SortPrefix(n - 1), entries[n])
    IN  SortPrefix(Len(entries))

RECURSIVE Split(_, _)
\* String.prototype.split on a one-token separator
Split(s, sep) ==
    LET at == IndexOf(s, sep, 1)
    IN  IF at = 0 THEN << s >>
        ELSE << SubSeq(s, 1, at - 1) >> \o Split(SubSeq(s, at + 1, Len(s)), sep)

(* ----------------- JavaScript objects used as mappings ---------------- *)
\* A Record<string, string> is a sequence of <<name, value>> entries with
\* pairwise distinct (case-sensitive) names, in insertion order.
Undefined == << "undefined" >>

ObjHas(obj, name) == \E i \in DOMAIN obj : obj[i][1] = name

ObjGet(obj, name) ==
    IF ObjHas(obj, name)
    THEN obj[CHOOSE i \in DOMAIN obj : obj[i][1] = name][2]
    ELSE Undefined

\* obj[name] = value, and { ...obj, name: value }
ObjSet(obj, name, value) ==
    IF ObjHas(obj, name)
    THEN [i \in DOMAIN obj |-> IF obj[i][1] = name THEN << name, value >> ELSE obj[i]]
    ELSE Append(obj, << name, value >>)

\* !x for a string or undefined
Falsy(v) == v = Undefined \/ v = << >>

(* --------------------------- text and bytes --------------------------- *)
\* new TextDecoder().decode(bytes): an invalid byte becomes U+FFFD
TextDecode(bytes) == [i \in DOMAIN bytes |-> IF bytes[i] = "0xFF" THEN "U+FFFD" ELSE bytes[i]]

RECURSIVE TextEncode(_)
\* new TextEncoder().encode(text): U+FFFD is three bytes in UTF-8
TextEncode(text) ==
    IF Len(text) = 0 THEN << >>
    ELSE (IF text[1] = "U+FFFD" THEN << "0xEF", "0xBF", "0xBD" >> ELSE << text[1] >>)
            \o TextEncode(Tail(text))

(* ------------------------------ SigV4 --------------------------------- *)
\* crypto.subtle.digest("SHA-256", data)
sha256(data) == << "sha256(" >> \o data \o << ")" >>

\* crypto.subtle.sign("HMAC", key, data)
hmacSha256(key, data) == << "hmac(" >> \o key \o << "," >> \o data \o << ")" >>

hexEncode(bytes) == << "hex(" >> \o bytes \o << ")" >>

\* a signing key kept from the preceding call and used again, whatever its date
getSigningKey_KeptFromLastCall(secretKey, date, region, service) ==
    LET kept == IF signLog = << >> THEN date ELSE << signLog[Len(signLog)].input.now.date >>
        kDate == hmacSha256(<< "AWS4" >> \o secretKey, kept)
        kRegion == hmacSha256(kDate, region)
        kService == hmacSha256(kRegion, service)
    IN  hmacSha256(kService, << "aws4_request" >>)

getSigningKey(secretKey, date, region, service) ==
    LET kDate == hmacSha256(<< "AWS4" >> \o secretKey, date)
        kRegion == hmacSha256(kDate, region)
        kService == hmacSha256(kRegion, service)
    IN  hmacSha256(kService, << "aws4_request" >>)

normalizeHeaderName(name) == toLowerCase(name)

RECURSIVE CollapseSpaces(_)
\* value.replace(/\s+/g, " ")
CollapseSpaces(v) ==
    IF Len(v) = 0 THEN << >>
    ELSE IF Len(v) >= 2 /\ v[1] = " " /\ v[2] = " " THEN CollapseSpaces(Tail(v))
    ELSE << v[1] >> \o CollapseSpaces(Tail(v))

RECURSIVE TrimStart(_)
TrimStart(v) == IF Len(v) > 0 /\ v[1] = " " THEN TrimStart(Tail(v)) ELSE v

RECURSIVE TrimEnd(_)
TrimEnd(v) ==
    IF Len(v) > 0 /\ v[Len(v)] = " " THEN TrimEnd(SubSeq(v, 1, Len(v) - 1)) ELSE v

\* String.prototype.trim
Trim(v) == TrimEnd(TrimStart(v))

CompareHeaderNames(a, b) == localeCompare(a[1], b[1])

createCanonicalHeaders(headers) ==
    LET normalized ==
            Sort([i \in DOMAIN headers |->
                    << normalizeHeaderName(headers[i][1]), CollapseSpaces(Trim(headers[i][2])) >>],
                 CompareHeaderNames)
    IN  [ headers |-> Join([i \in DOMAIN normalized |->
                                normalized[i][1] \o << ":" >> \o normalized[i][2]], << "\n" >>),
          signedHeaders |-> Join([i \in DOMAIN normalized |-> normalized[i][1]], << ";" >>) ]

\* encodeURIComponent: unreserved text is kept, a space and a percent sign
\* are escaped
encodeURIComponent(s) ==
    [i \in DOMAIN s |->
        CASE s[i] = " " -> "%20"
          [] s[i] = "/" -> "%2F"
          [] s[i] = "%20" -> "%2520"
          [] OTHER -> s[i]]

CompareQueryParams(a, b) ==
    IF a[1] # b[1] THEN localeCompare(a[1], b[1]) ELSE localeCompare(a[2], b[2])

createCanonicalQueryString(url) ==
    LET params == Sort(url.searchParams, CompareQueryParams)
    IN  Join([i \in DOMAIN params |->
                encodeURIComponent(params[i][1]) \o << "=" >> \o encodeURIComponent(params[i][2])],
             << "&" >>)

\* encodeURIComponent(segment).replace(/%2F/g, "/")
EncodeSegment(segment) ==
    LET encoded == encodeURIComponent(segment)
    IN  [i \in DOMAIN segment |-> IF encoded[i] = "%2F" THEN "/" ELSE encoded[i]]

createCanonicalUri(url) ==
    LET pathname == IF url.pathname = << >> THEN << "/" >> ELSE url.pathname
        segments == Split(pathname, "/")
    IN  Join([i \in DOMAIN segments |-> EncodeSegment(segments[i])], << "/" >>)

\* "e3b0c442...b855": the hex SHA-256 of the empty string, as a literal
EmptyPayloadHash == hexEncode(sha256(<< >>))

\* if (body): undefined and the empty string are falsy, a Uint8Array never is
HasBody(body) == body.type = "bytes" \/ (body.type = "string" /\ body.data # << >>)

\* the bytes of a body that is a string or a Uint8Array
BodyBytes(body) == IF body.type = "string" THEN TextEncode(body.data) ELSE body.data

\* "Hash payload" of createCanonicalRequest
PayloadHash(body) ==
    IF HasBody(body) THEN hexEncode(sha256(BodyBytes(body))) ELSE EmptyPayloadHash

createCanonicalRequest(request) ==
    LET canonical == createCanonicalHeaders(request.headers)
    IN  Join(<< request.method,
                createCanonicalUri(request.url),
                createCanonicalQueryString(request.url),
                canonical.headers,
                << >>,
                canonical.signedHeaders,
                PayloadHash(request.body) >>, << "\n" >>)

createStringToSign(canonicalRequest, date, credentialScope) ==
    Join(<< << "AWS4-HMAC-SHA256" >>, date, credentialScope,
            hexEncode(sha256(canonicalRequest)) >>, << "\n" >>)

H_host == << "h", "o", "s", "t" >>

H_x_amz_date == << "x", "-", "a", "m", "z", "-", "d", "a", "t", "e" >>

H_Authorization ==
    << "A", "u", "t", "h", "o", "r", "i", "z", "a", "t", "i", "o", "n" >>

\* now is the clock reading: [date |-> YYYYMMDD, time |-> HHMMSS]
DateTime(now) == << now.date, "T", now.time, "Z" >>

\* "Ensure required headers": { ...request.headers, host }, then x-amz-date
\* unless the mapping has a truthy entry of exactly that name
SigningHeaders(request, now) ==
    LET withHost == ObjSet(request.headers, H_host, request.url.host)
    IN  IF Falsy(ObjGet(withHost, H_x_amz_date))
        THEN ObjSet(withHost, H_x_amz_date, DateTime(now))
        ELSE withHost

CredentialScope(now, region, service) ==
    << now.date, "/" >> \o region \o << "/" >> \o service \o << "/", "aws4_request" >>

\* the values signRequest computes on its way to the Authorization header
SigningSteps(request, credentials, region, service, now) ==
    LET date == << now.date >>
        headers == SigningHeaders(request, now)
        canonicalRequest == createCanonicalRequest([request EXCEPT !.headers = headers])
        credentialScope == CredentialScope(now, region, service)
        stringToSign == createStringToSign(canonicalRequest, DateTime(now), credentialScope)
        signingKey == getSigningKey(credentials.secretAccessKey, date, region, service)
        signature == hexEncode(hmacSha256(signingKey, stringToSign))
    IN  [ headers |-> headers,
          canonicalRequest |-> canonicalRequest,
          stringToSign |-> stringToSign,
          authorization |->
            << "AWS4-HMAC-SHA256 Credential=" >> \o credentials.accessKeyId \o << "/" >>
                \o credentialScope \o << ", SignedHeaders=" >>
                \o createCanonicalHeaders(headers).signedHeaders
                \o << ", Signature=" >> \o signature ]

signRequest(request, credentials, region, service, now) ==
    LET steps == SigningSteps(request, credentials, region, service, now)
    IN  ObjSet(steps.headers, H_Authorization, steps.authorization)

(* --------------------------- values, outcomes ------------------------- *)
Val(type, data) == [data |-> data, type |-> type]

Null == Val("null", << >>)

Void == Val("undefined", << >>)

EmptyObject == Val("object", << >>)

Bool(b) == Val("boolean", IF b THEN << "true" >> ELSE << "false" >>)

\* a call either returns a value or throws an Error with a message
Return(v) == [value |-> v, kind |-> "return", message |-> << >>]

Throw(message) == [value |-> Void, kind |-> "throw", message |-> message]

Pending == [value |-> Void, kind |-> "pending", message |-> << >>]

(* -------------------------- request executor -------------------------- *)
\* new URL(text): the protocol token, the host up to the first "/", the path
\* from there on; a space in the path is percent-encoded by the parser
ParseURL(text) ==
    LET slash == IndexOf(text, "/", 2)
        path == IF slash = 0 THEN << "/" >> ELSE SubSeq(text, slash, Len(text))
    IN  [ searchParams |-> << >>,
          pathname |-> [i \in DOMAIN path |-> IF path[i] = " " THEN "%20" ELSE path[i]],
          host |-> IF slash = 0 THEN Tail(text) ELSE SubSeq(text, 2, slash - 1),
          protocol |-> << text[1] >> ]

\* url.toString()
UrlToString(url) == url.protocol \o url.host \o url.pathname

DigitalOceanDomain == << "digitaloceanspaces", ".", "com" >>

R2Domain == << "r2", ".", "cloudflarestorage", ".", "com" >>

\* mutant: the endpoint's host name is not looked at
UsePathStyle_FlagOnly(endpoint, config) == config.forcePathStyle = "true"

\* the addressing decision of s3Request
UsePathStyle(endpoint, config) ==
    \/ config.forcePathStyle = "true"
    \/ Includes(endpoint, DigitalOceanDomain)
    \/ Includes(endpoint, R2Domain)

BuildUrl(endpoint, bucketName, objectKey, config) ==
    IF UsePathStyle(endpoint, config)
    THEN ParseURL(endpoint \o << "/" >> \o bucketName \o << "/" >> \o objectKey)
    ELSE LET url == ParseURL(endpoint \o << "/" >> \o objectKey)
         IN  [url EXCEPT !.host = bucketName \o << "." >> \o url.host]

RECURSIVE SetAll(_, _)
\* for (const [key, value] of Object.entries(queryParams)) url.searchParams.set(key, value)
SetAll(params, entries) ==
    IF Len(entries) = 0 THEN params
    ELSE SetAll(ObjSet(params, entries[1][1], entries[1][2]), Tail(entries))

H_x_amz_content_sha256 ==
    << "x", "-", "a", "m", "z", "-", "c", "o", "n", "t", "e", "n", "t", "-",
       "s", "h", "a", "2", "5", "6" >>

H_x_amz_copy_source ==
    << "x", "-", "a", "m", "z", "-", "c", "o", "p", "y", "-",
       "s", "o", "u", "r", "c", "e" >>

NoBody == Val("undefined", << >>)

\* mutant: the header carries the hash of the empty payload whatever the body
RequestPayloadHash_AlwaysEmpty(body) == EmptyPayloadHash

\* "Calculate payload hash for x-amz-content-sha256 header" of s3Request
RequestPayloadHash(body) ==
    IF HasBody(body) THEN hexEncode(sha256(BodyBytes(body))) ELSE EmptyPayloadHash

\* mutant: the content hash header is attached after signing
S3SignedRequest_HashAfterSigning(endpoint, bucketName, objectKey, credentials, config, options, now) ==
    LET built == BuildUrl(endpoint, bucketName, objectKey, config)
        url == [built EXCEPT !.searchParams = SetAll(built.searchParams, options.queryParams)]
        toSign == [headers |-> options.headers, url |-> url,
                   body |-> options.body, method |-> options.method]
    IN  [ headers |-> ObjSet(signRequest(toSign, credentials, config.region, << "s3" >>, now),
                             H_x_amz_content_sha256, RequestPayloadHash(options.body)),
          url |-> url,
          body |-> options.body,
          method |-> options.method ]

\* s3Request up to the fetch call: the request that is put on the wire
S3SignedRequest(endpoint, bucketName, objectKey, credentials, config, options, now) ==
    LET built == BuildUrl(endpoint, bucketName, objectKey, config)
        url == [built EXCEPT !.searchParams = SetAll(built.searchParams, options.queryParams)]
        requestHeaders ==
            ObjSet(options.headers, H_x_amz_content_sha256, RequestPayloadHash(options.body))
        toSign == [headers |-> requestHeaders, url |-> url,
                   body |-> options.body, method |-> options.method]
    IN  [ headers |-> signRequest(toSign, credentials, config.region, << "s3" >>, now),
          url |-> url,
          body |-> options.body,
          method |-> options.method ]

\* the capture group of text.match(/<Tag>(.*?)<\/Tag>/), Undefined without a match
RegexCapture(text, open, close) ==
    LET closes(i) == {j \in (i + 1)..Len(text) :
                        text[j] = close /\ \A k \in (i + 1)..(j - 1) : text[k] # "\n"}
        opens == {i \in DOMAIN text : text[i] = open /\ closes(i) # {}}
    IN  IF opens = {} THEN Undefined
        ELSE LET i == CHOOSE x \in opens : \A y \in opens : x <= y
                 j == CHOOSE x \in closes(i) : \A y \in closes(i) : x <= y
             IN  SubSeq(text, i + 1, j - 1)

\* JSON.parse for the texts that occur here: an object of string members
\* { name : value , ... }; every other text is a SyntaxError
JSONparse(text) ==
    IF Len(text) >= 2 /\ text[1] = "{" /\ text[Len(text)] = "}"
    THEN LET inner == SubSeq(text, 2, Len(text) - 1)
             members == IF inner = << >> THEN << >> ELSE Split(inner, ",")
         IN  [ obj |-> [i \in DOMAIN members |->
                          << SubSeq(members[i], 1, IndexOf(members[i], ":", 1) - 1),
                             SubSeq(members[i], IndexOf(members[i], ":", 1) + 1, Len(members[i])) >>],
               ok |-> \A i \in DOMAIN members : IndexOf(members[i], ":", 1) > 1 ]
    ELSE [obj |-> << >>, ok |-> FALSE]

\* errorData of s3Request: [Code, Message], Undefined where the field is missing
ParseErrorData(errorText) ==
    LET codeMatch == RegexCapture(errorText, "<Code>", "</Code>")
        messageMatch == RegexCapture(errorText, "<Message>", "</Message>")
    IN  IF codeMatch # Undefined /\ messageMatch # Undefined
        THEN [Code |-> codeMatch, Message |-> messageMatch]
        ELSE IF JSONparse(errorText).ok
        THEN [Code |-> ObjGet(JSONparse(errorText).obj, << "Code" >>),
              Message |-> ObjGet(JSONparse(errorText).obj, << "Message" >>)]
        ELSE [Code |-> Undefined, Message |-> Undefined]

FileNotFoundText == << "File not found" >>

\* the Error s3Request throws for a response that is not ok
S3ErrorMessage(response) ==
    LET errorText == response.body
        error == ParseErrorData(errorText)
        errorCode == IF Falsy(error.Code) THEN << >> ELSE error.Code
        errorMessage == IF Falsy(error.Message) THEN errorText ELSE error.Message
    IN  IF response.status = 404 /\ errorCode = << "NoSuchKey" >>
        THEN FileNotFoundText \o << ": " >> \o errorMessage
        ELSE << "S3-compatible API error: ", ToString(response.status), " ", response.statusText >>
                \o (IF errorCode # << >> THEN << " [" >> \o errorCode \o << "]" >> ELSE << >>)
                \o << " - " >> \o errorMessage

ResponseOk(response) == response.status \in 200..299

\* s3Request from the settled fetch on: what the call returns or throws
s3Request(response) ==
    IF response.kind = "transport" THEN Throw(response.body)
    ELSE IF ~ResponseOk(response) THEN Throw(S3ErrorMessage(response))
    ELSE IF response.status = 204 \/ ~response.hasBody THEN Return(EmptyObject)
    ELSE IF /\ ~Falsy(response.contentType)
            /\ ~Includes(response.contentType, << "application/xml" >>)
            /\ ~Includes(response.contentType, << "application/json" >>)
    THEN Return(Val("bytes", response.body))
    ELSE Return(Val("text", TextDecode(response.body)))

(* -------------------------- object operations ------------------------- *)
\* Each operation is given as what it makes of the outcome r of its s3Request.
\* mutant: the catch looks for the vendor code instead of the thrown text
IsFileNotFound_ByVendorCode(message) == Includes(message, << "NoSuchKey" >>)

IsFileNotFound(message) == Includes(message, FileNotFoundText)

uploadObject(r) == IF r.kind = "throw" THEN r ELSE Return(Void)

H_list_type == << "l", "i", "s", "t", "-", "t", "y", "p", "e" >>

H_prefix == << "p", "r", "e", "f", "i", "x" >>

\* queryParams of listObjects: list-type, and prefix when it is truthy
ListQueryParams(prefix) ==
    IF Falsy(prefix) THEN << << H_list_type, << "2" >> >> >>
    ELSE << << H_list_type, << "2" >> >>, << H_prefix, prefix >> >>

\* what RegExp.prototype.exec makes of its argument: String(response)
StringOf(value) ==
    CASE value.type = "text" -> value.data
      [] value.type = "object" -> << "[object Object]" >>
      [] value.type = "bytes" -> Join([i \in DOMAIN value.data |-> << "byte" >>], << "," >>)
      [] OTHER -> value.data

RECURSIVE MatchAllKeys(_)
\* the loop over /<Key>(.*?)<\/Key>/g: the captures that are not empty, in
\* order; a capture does not run over a line break
MatchAllKeys(text) ==
    LET open == IndexOf(text, "<Key>", 1)
        close == IF open = 0 THEN 0 ELSE IndexOf(text, "</Key>", open + 1)
        break == IF open = 0 THEN 0 ELSE IndexOf(text, "\n", open + 1)
    IN  IF open = 0 \/ close = 0 THEN << >>
        ELSE IF break # 0 /\ break < close
        THEN MatchAllKeys(SubSeq(text, open + 1, Len(text)))
        ELSE (IF close = open + 1 THEN << >> ELSE << SubSeq(text, open + 1, close - 1) >>)
                \o MatchAllKeys(SubSeq(text, close + 1, Len(text)))

\* mutant: the expression without the g flag, matched once
listObjects_FirstMatchOnly(r) ==
    IF r.kind = "throw" THEN r
    ELSE LET text == StringOf(r.value)
             open == IndexOf(text, "<Key>", 1)
             close == IF open = 0 THEN 0 ELSE IndexOf(text, "</Key>", open + 1)
         IN  Return(Val("array", IF open = 0 \/ close = 0 THEN << >>
                                 ELSE SubSeq(text, open + 1, close - 1)))

\* the string[] listObjects returns, written as the keys joined with commas
listObjects(r) ==
    IF r.kind = "throw" THEN r
    ELSE Return(Val("array", Join(MatchAllKeys(StringOf(r.value)), << "," >>)))

downloadObjectAsString(r) ==
    IF r.kind = "return"
    THEN IF r.value.type = "bytes"
         THEN Return(Val("text", TextDecode(r.value.data)))
         ELSE Return(r.value)
    ELSE IF IsFileNotFound(r.message) THEN Return(Null) ELSE r

downloadObjectAsBuffer(r) ==
    IF r.kind = "return"
    THEN IF r.value.type = "bytes"
         THEN Return(r.value)
         ELSE IF r.value.type = "text"
         THEN Return(Val("bytes", TextEncode(r.value.data)))
         ELSE Return(Val("bytes", << "[object Object]" >>))
    ELSE IF IsFileNotFound(r.message) THEN Return(Null) ELSE r

deleteObject(r) == IF r.kind = "throw" THEN r ELSE Return(Void)

copyObject(r) == IF r.kind = "throw" THEN r ELSE Return(Void)

objectExists(r) ==
    IF r.kind = "return" THEN Return(Bool(TRUE))
    ELSE IF IsFileNotFound(r.message) THEN Return(Bool(FALSE)) ELSE r

\* mutant: a failure that is not an authorization failure is thrown again
checkBucketAccess_Rethrow(r) ==
    IF r.kind = "return" THEN Return(Bool(TRUE))
    ELSE IF Includes(r.message, << "403" >>) \/ Includes(r.message, << "Forbidden" >>)
    THEN Return(Bool(FALSE))
    ELSE IF Includes(r.message, << "401" >>) \/ Includes(r.message, << "Unauthorized" >>)
    THEN Return(Bool(FALSE))
    ELSE r

checkBucketAccess(r) ==
    IF r.kind = "return" THEN Return(Bool(TRUE))
    ELSE IF Includes(r.message, << "403" >>) \/ Includes(r.message, << "Forbidden" >>)
    THEN Return(Bool(FALSE))
    ELSE IF Includes(r.message, << "401" >>) \/ Includes(r.message, << "Unauthorized" >>)
    THEN Return(Bool(FALSE))
    ELSE Return(Bool(FALSE))

(* ------------------------------- universe ----------------------------- *)
Keys == {<< "k", ToString(i) >> : i \in 1..NumKeys}

\* object contents as bytes: not valid UTF-8, and plain text
Contents == {<< "0xFF" >>} \cup {<< "c", ToString(i) >> : i \in 1..NumContents}

Absent == << "(absent)" >>

BucketName == << "my-bucket" >>

Credentials == [secretAccessKey |-> << "SECRET" >>, accessKeyId |-> << "AKID" >>]

\* endpoints as the provider plugins build them
Configs ==
    { [region |-> << "us-east-1" >>,
       endpoint |-> << "https://", "s3", ".", "us-east-1", ".", "amazonaws", ".", "com" >>,
       forcePathStyle |-> f] : f \in {"true", "false", "undefined"} }
    \cup
    { [region |-> << "auto" >>,
       endpoint |-> << "https://", "acct", ".", "r2", ".", "cloudflarestorage", ".", "com" >>,
       forcePathStyle |-> "false"],
      [region |-> << "nyc3" >>,
       endpoint |-> << "https://", "nyc3", ".", "digitaloceanspaces", ".", "com" >>,
       forcePathStyle |-> "undefined"] }

Clock == {[date |-> "20260101", time |-> "235959"]}

StatusText(status) ==
    CASE status = 200 -> "OK"
      [] status = 204 -> "No Content"
      [] status = 401 -> "Unauthorized"
      [] status = 403 -> "Forbidden"
      [] status = 404 -> "Not Found"
      [] status = 500 -> "Internal Server Error"
      [] OTHER -> ""

HttpResponse(origin, status, contentType, hasBody, body) ==
    [ body |-> body, kind |-> "http", status |-> status, statusText |-> StatusText(status),
      hasBody |-> hasBody, contentType |-> contentType, origin |-> origin ]

NoResponse ==
    [ body |-> << >>, kind |-> "none", status |-> 0, statusText |-> "",
      hasBody |-> FALSE, contentType |-> Undefined, origin |-> "none" ]

TransportFailure ==
    [ body |-> << "error sending request" >>, kind |-> "transport", status |-> 0, statusText |-> "",
      hasBody |-> FALSE, contentType |-> Undefined, origin |-> "fault" ]

XmlError(code, message) ==
    << "<Error>", "<Code>" >> \o code \o << "</Code>", "<Message>" >> \o message
        \o << "</Message>", "</Error>" >>

JsonError(code, message) == << "{", "Code", ":" >> \o code \o << ",", "Message", ":" >> \o message \o << "}" >>

NoSuchKeyDoc == XmlError(<< "NoSuchKey" >>, << "The specified key does not exist." >>)

XmlType == << "application/xml" >>

\* answers that do not depend on the stored objects: refusals, server and
\* proxy errors, and a failed network call; none of them changes the store
Faults ==
    { HttpResponse("fault", 403, XmlType, TRUE, XmlError(<< "AccessDenied" >>, << "Access Denied" >>)),
      HttpResponse("fault", 401, Undefined, FALSE, << >>),
      HttpResponse("fault", 404, XmlType, TRUE,
                   XmlError(<< "NoSuchBucket" >>, << "The specified bucket does not exist" >>)),
      HttpResponse("fault", 404, XmlType, TRUE, NoSuchKeyDoc),
      HttpResponse("fault", 404, << "application/json" >>, TRUE,
                   JsonError(<< "NoSuchKey" >>, << "Not Found" >>)),
      HttpResponse("fault", 404, XmlType, TRUE,
                   << "<Error>", "<Code>", "NoSuchKey", "</Code>", "</Error>" >>),
      HttpResponse("fault", 404, << "text/html" >>, TRUE,
                   << "<html>", "File not found", "</html>" >>),
      HttpResponse("fault", 500, XmlType, TRUE,
                   XmlError(<< "InternalError" >>, << "File not found", " in backend" >>)),
      TransportFailure }

\* a HEAD response carries no body
WithoutBody(response) == [response EXCEPT !.hasBody = FALSE, !.body = << >>]

(* ------------------------------- state -------------------------------- *)
VARIABLES
    config,     \* the EndpointConfig of the client instance
    store,      \* the bucket on the server: key -> bytes, or Absent
    pc,         \* "idle", "sign", "fetch" (request on the wire), "settle" (response in)
    op,         \* the operation in progress, or the last one
    request,    \* the request handed to fetch
    response,   \* what fetch settled with
    result,     \* what the operation returned or threw
    store0,     \* the store when the operation was called
    log,        \* the exchanges of the operation: method and status
    moved,      \* the last move that succeeded, while no later call wrote
    signIn,     \* a request handed to signRequest directly
    signOut,    \* what signRequest made of it
    cache,      \* a Cache object used on its own
    used,       \* its stored keys, least recently read or written first
    clock,      \* Date.now()
    call,       \* the last call made, and what it returned
    bucketInstances,    \* bucketConfig.ts: instance name -> BucketInstance
    bucketCaches,       \* cache.ts: instance name -> Cache
    pluginInstances,    \* PluginRegistry: provider:bucketName -> plugin
    tasks,              \* the calls of the file layer that are under way, each at an await
    tokenCache          \* gcs/auth.ts: the cached access token

signVars == << signIn, signOut, signLog >>

coreVars == << cache, used, clock, call, bucketInstances, bucketCaches, pluginInstances, tasks, tokenCache >>

s3Vars == << config, store, pc, op, request, response, result, store0, log, moved >>

vars ==
    << s3Vars, signVars, coreVars >>

Op(name, key, src, dst, body, phase) ==
    [name |-> name, key |-> key, body |-> body, src |-> src, dst |-> dst, phase |-> phase]

NoOp == Op("none", << >>, << >>, << >>, NoBody, "")

NoRequest ==
    [ headers |-> << >>,
      url |-> [searchParams |-> << >>, pathname |-> << >>, host |-> << >>, protocol |-> << >>],
      body |-> NoBody, method |-> << >> ]

NoMove == [src |-> << >>, dst |-> << >>, valid |-> FALSE, content |-> << >>]

NoSign ==
    [ steps |-> [headers |-> << >>, canonicalRequest |-> << >>, stringToSign |-> << >>,
                 authorization |-> << >>],
      done |-> FALSE, signed |-> << >> ]

\* no limit: maxSize or maxMemorySize is undefined
NoLimit == -1

\* new Cache(maxSize, maxMemorySize, ttl); a ttl of 0 stands for undefined too
NewCache(maxSize, maxMemorySize, ttl) ==
    [ entries |-> << >>, maxSize |-> maxSize, maxMemorySize |-> maxMemorySize,
      ttl |-> ttl, currentMemorySize |-> 0 ]

NoCall ==
    [name |-> "none", value |-> Void, key |-> << >>, now |-> 0,
     before |-> NewCache(NoLimit, NoLimit, 0), usedBefore |-> << >>, count |-> 0]

\* the state of the file layer while it is not in use
\* an access token is told by the claims of the JWT it was issued for
AccessToken(clientEmail, scope, now) == [scope |-> scope, iss |-> clientEmail, iat |-> now]

\* let tokenCache: CachedToken | null = null
NoCachedToken == [defined |-> FALSE, accessToken |-> AccessToken(<< >>, << >>, 0), expiresAt |-> 0]

CoreIdle ==
    /\ cache = NewCache(NoLimit, NoLimit, 0)
    /\ used = << >>
    /\ clock = 0
    /\ call = NoCall
    /\ bucketInstances = << >>
    /\ bucketCaches = << >>
    /\ pluginInstances = << >>
    /\ tasks = << >>
    /\ tokenCache = NoCachedToken

SignIdle ==
    [ now |-> [date |-> "", time |-> ""],
      request |-> [headers |-> << >>, url |-> NoRequest.url, body |-> NoBody, method |-> << >>] ]

Options(method, body, headers, queryParams) ==
    [headers |-> headers, body |-> body, method |-> << method >>, queryParams |-> queryParams]

\* the options each operation passes to s3Request, and the object key
RequestOptions(o) ==
    CASE o.name = "uploadObject" -> Options("PUT", o.body, << >>, << >>)
      [] o.name \in {"downloadObjectAsString", "downloadObjectAsBuffer"} ->
            Options("GET", NoBody, << >>, << >>)
      [] o.name = "deleteObject" \/ (o.name = "move" /\ o.phase = "delete") ->
            Options("DELETE", NoBody, << >>, << >>)
      [] o.name = "copyObject" \/ (o.name = "move" /\ o.phase = "copy") ->
            Options("PUT", NoBody,
                    << << H_x_amz_copy_source, BucketName \o << "/" >> \o o.src >> >>, << >>)
      [] o.name \in {"objectExists", "checkBucketAccess"} ->
            Options("HEAD", NoBody, << >>, << >>)
      [] o.name = "listObjects" ->
            Options("GET", NoBody, << >>, ListQueryParams(o.key))

ObjectKey(o) ==
    CASE o.name \in {"checkBucketAccess", "listObjects"} -> << >>
      [] o.name = "copyObject" \/ (o.name = "move" /\ o.phase = "copy") -> o.dst
      [] o.name = "move" /\ o.phase = "delete" -> o.src
      [] OTHER -> o.key

\* what the operation makes of the outcome of its s3Request
Finish(o, r) ==
    CASE o.name = "uploadObject" -> uploadObject(r)
      [] o.name = "downloadObjectAsString" -> downloadObjectAsString(r)
      [] o.name = "downloadObjectAsBuffer" -> downloadObjectAsBuffer(r)
      [] o.name = "deleteObject" -> deleteObject(r)
      [] o.name = "copyObject" -> copyObject(r)
      [] o.name = "objectExists" -> objectExists(r)
      [] o.name = "checkBucketAccess" -> checkBucketAccess(r)
      [] o.name = "listObjects" -> listObjects(r)
      [] o.name = "move" /\ o.phase = "copy" -> copyObject(r)
      [] o.name = "move" /\ o.phase = "delete" -> deleteObject(r)

CryptoUnavailable == Throw(<< "crypto.subtle is unavailable" >>)

\* s3Request is entered for operation o; its first await is the payload digest
EnterS3Request(o) ==
    /\ op' = o
    /\ request' = NoRequest
    /\ response' = NoResponse
    /\ result' = Pending
    /\ pc' = "sign"

Call(o, writes) ==
    /\ pc = "idle"
    /\ EnterS3Request(o)
    /\ store0' = store
    /\ log' = << >>
    /\ moved' = IF writes THEN NoMove ELSE moved
    /\ UNCHANGED << config, store, signVars, coreVars >>

UploadObject(key, content) ==
    Call(Op("uploadObject", key, << >>, << >>,
            IF content.type = "string" THEN Val("bytes", TextEncode(content.data)) ELSE content,
            ""), TRUE)

DownloadObjectAsString(key) ==
    Call(Op("downloadObjectAsString", key, << >>, << >>, NoBody, ""), FALSE)

DownloadObjectAsBuffer(key) ==
    Call(Op("downloadObjectAsBuffer", key, << >>, << >>, NoBody, ""), FALSE)

DeleteObject(key) == Call(Op("deleteObject", key, << >>, << >>, NoBody, ""), TRUE)

CopyObject(sourceKey, destinationKey) ==
    Call(Op("copyObject", << >>, sourceKey, destinationKey, NoBody, ""), TRUE)

ObjectExists(key) == Call(Op("objectExists", key, << >>, << >>, NoBody, ""), FALSE)

CheckBucketAccess == Call(Op("checkBucketAccess", << >>, << >>, << >>, NoBody, ""), FALSE)

\* listObjects(endpoint, bucketName, prefix, ...); the prefix is kept in op.key
ListObjects(prefix) == Call(Op("listObjects", prefix, << >>, << >>, NoBody, ""), FALSE)

\* AWSS3Plugin.move / CloudflareR2Plugin.move, first half: copyObject is called
Move(oldPath, newPath) == Call(Op("move", << >>, oldPath, newPath, NoBody, "copy"), TRUE)

\* the keys in the order a listing gives them
KeyList == [i \in 1..NumKeys |-> << "k", ToString(i) >>]

Prefixes == {Undefined, << >>, << "k" >>, << "k", "1" >>, << "z" >>}

StartsWith(text, prefix) ==
    Len(prefix) <= Len(text) /\ SubSeq(text, 1, Len(prefix)) = prefix

\* the keys of the stored objects that start with the prefix, in key order
ListedKeys(objects, prefix) ==
    SelectSeq(KeyList, LAMBDA k : /\ objects[k] # Absent
                                 /\ StartsWith(k, IF prefix = Undefined THEN << >> ELSE prefix))

\* the ListObjectsV2 result document
ListBucketResult(keys) ==
    << "<ListBucketResult>" >>
        \o Join([i \in DOMAIN keys |->
                    << "<Contents>", "<Key>" >> \o keys[i] \o << "</Key>", "</Contents>" >>], << >>)
        \o << "</ListBucketResult>" >>

\* the server's answer to the request on the wire and the store it leaves.
\* A listing is answered with the result document, or without a body when
\* no key matches.
\* A request answered 2xx has been applied; any other has not.  A missing key
\* is answered 404 NoSuchKey; to HEAD with or without the error document, to
\* DELETE as S3 does (204) or as a 404.
ServerAnswers ==
    LET key == ObjectKey(op)
        answer(status, contentType, hasBody, body, newStore) ==
            [ response |-> HttpResponse("server", status, contentType, hasBody, body),
              store |-> newStore ]
    IN  CASE ObjHas(request.url.searchParams, H_list_type) ->
                LET listed == ListedKeys(store, ObjGet(request.url.searchParams, H_prefix))
                IN  {answer(200, XmlType, TRUE, ListBucketResult(listed), store)}
                        \cup (IF listed = << >>
                              THEN {answer(200, Undefined, FALSE, << >>, store)}
                              ELSE {})
          [] request.method = << "GET" >> ->
                IF store[key] # Absent
                THEN {answer(200, ct, TRUE, store[key], store) :
                        ct \in {<< "application/octet-stream" >>, XmlType, Undefined}}
                ELSE {answer(404, XmlType, TRUE, NoSuchKeyDoc, store)}
          [] request.method = << "HEAD" >> ->
                IF key = << >> \/ store[key] # Absent
                THEN {answer(200, Undefined, FALSE, << >>, store)}
                ELSE {answer(404, XmlType, FALSE, << >>, store),
                      answer(404, XmlType, TRUE, NoSuchKeyDoc, store)}
          [] request.method = << "DELETE" >> ->
                IF store[key] # Absent
                THEN {answer(204, Undefined, FALSE, << >>, [store EXCEPT ![key] = Absent])}
                ELSE {answer(204, Undefined, FALSE, << >>, store),
                      answer(404, XmlType, TRUE, NoSuchKeyDoc, store)}
          [] request.method = << "PUT" >> ->
                IF ObjHas(request.headers, H_x_amz_copy_source)
                THEN IF store[op.src] # Absent
                     THEN {answer(200, XmlType, TRUE, << "<CopyObjectResult>", "</CopyObjectResult>" >>,
                                  [store EXCEPT ![key] = store[op.src]])}
                     ELSE {answer(404, XmlType, TRUE, NoSuchKeyDoc, store)}
                ELSE {answer(200, Undefined, TRUE, << >>,
                             [store EXCEPT ![key] = request.body.data])}

\* fetch hands over no body for a HEAD request, whatever the status
FaultAnswers ==
    LET faults == IF request.method = << "HEAD" >>
                  THEN {IF f.kind = "http" THEN WithoutBody(f) ELSE f : f \in Faults}
                  ELSE Faults
    IN  {[response |-> f, store |-> store] : f \in faults}

\* s3Request up to the fetch call: the request is built and signed and handed
\* to fetch, or Web Crypto is unavailable and the operation ends with the throw
SignAndSend ==
    /\ pc = "sign"
    /\ \E now \in Clock, cryptoOk \in BOOLEAN :
         IF cryptoOk
         THEN /\ request' = S3SignedRequest(config.endpoint, BucketName, ObjectKey(op),
                                            Credentials, config, RequestOptions(op), now)
              /\ pc' = "fetch"
              /\ result' = result
         ELSE /\ request' = request
              /\ pc' = "idle"
              /\ result' = Finish(op, CryptoUnavailable)
    /\ UNCHANGED << config, store, op, response, store0, log, moved, signVars, coreVars >>

\* await fetch(url.toString(), ...): the network call settles
Fetch ==
    /\ pc = "fetch"
    /\ \E a \in ServerAnswers \cup FaultAnswers :
         /\ response' = a.response
         /\ store' = a.store
         /\ log' = Append(log, [method |-> request.method, status |-> a.response.status])
    /\ pc' = "settle"
    /\ UNCHANGED << config, op, request, result, store0, moved, signVars, coreVars >>

\* mutant: the outcome of the copy is not awaited before the delete
MoveContinues_Regardless(o, r) == o.name = "move" /\ o.phase = "copy"

\* move: "await copyObject(...)" lets the delete follow only if it returned
MoveContinues(o, r) == o.name = "move" /\ o.phase = "copy" /\ copyObject(r).kind = "return"

\* the response is handled and the operation returns or throws
Settle ==
    /\ pc = "settle"
    /\ ~MoveContinues(op, s3Request(response))
    /\ result' = Finish(op, s3Request(response))
    /\ pc' = "idle"
    /\ moved' = IF op.name = "move" /\ result'.kind = "return"
                THEN [src |-> op.src, dst |-> op.dst, valid |-> TRUE, content |-> store0[op.src]]
                ELSE moved
    /\ UNCHANGED << config, store, op, request, response, store0, log, signVars, coreVars >>

\* AWSS3Plugin.move / CloudflareR2Plugin.move, second half: deleteObject
MoveDeleteSource ==
    /\ pc = "settle"
    /\ MoveContinues(op, s3Request(response))
    /\ EnterS3Request([op EXCEPT !.phase = "delete"])
    /\ UNCHANGED << config, store, store0, log, moved, signVars, coreVars >>

\* what uploadObject is given: bytes or a text, either of which may be empty
UploadInputs ==
    {Val("bytes", c) : c \in Contents \cup {<< >>}}
        \cup {Val("string", << "c", "1" >>), Val("string", << >>)}

Init ==
    /\ config \in Configs
    /\ store \in [Keys -> Contents \cup {Absent}]
    /\ pc = "idle"
    /\ op = NoOp
    /\ request = NoRequest
    /\ response = NoResponse
    /\ result = Pending
    /\ store0 = store
    /\ log = << >>
    /\ moved = NoMove
    /\ signIn = SignIdle
    /\ signLog = << >>
    /\ CoreIdle
    /\ signOut = NoSign

Next ==
    \/ \E key \in Keys, content \in UploadInputs : UploadObject(key, content)
    \/ \E key \in Keys : DownloadObjectAsString(key)
    \/ \E key \in Keys : DownloadObjectAsBuffer(key)
    \/ \E key \in Keys : DeleteObject(key)
    \/ \E sourceKey \in Keys, destinationKey \in Keys : CopyObject(sourceKey, destinationKey)
    \/ \E key \in Keys : ObjectExists(key)
    \/ CheckBucketAccess
    \/ \E prefix \in Prefixes : ListObjects(prefix)
    \/ \E oldPath \in Keys, newPath \in Keys : Move(oldPath, newPath)
    \/ SignAndSend
    \/ Fetch
    \/ Settle
    \/ MoveDeleteSource

Spec == Init /\ [][Next]_vars

(* ----------------------- signRequest called directly ------------------ *)
H_Host == << "H", "o", "s", "t" >>

H_X_Amz_Date == << "X", "-", "A", "m", "z", "-", "D", "a", "t", "e" >>

HeaderNames == {H_host, H_Host, H_x_amz_date, H_X_Amz_Date, H_x_amz_content_sha256}

HeaderValues == {<< "v" >>, << " ", "a", " ", " ", "b" >>}

\* the header mappings of at most MaxHeaders entries: names pairwise distinct
\* as an object's keys are, that is, up to letter case
HeaderMaps ==
    UNION {{h \in [1..n -> HeaderNames \X HeaderValues] :
                \A i, j \in 1..n : i # j => h[i][1] # h[j][1]} : n \in 0..MaxHeaders}

\* the entries of a URL's searchParams: a name may repeat
QueryEntries == {<< "a" >>, << "B" >>, << "b" >>} \X {<< "1" >>, << "2" >>}

QueryLists == UNION {[1..n -> QueryEntries] : n \in 0..MaxParams}

\* the clock readings of the direct calls: two days
SignClock == Clock \cup {[date |-> "20260102", time |-> "000000"]}

SignConfig ==
    [region |-> << "us-east-1" >>,
     endpoint |-> << "https://", "s3", ".", "us-east-1", ".", "amazonaws", ".", "com" >>,
     forcePathStyle |-> "false"]

\* the request of a direct call: some headers, or some query parameters
SignInput(h, q, key, now) ==
    [ now |-> now,
      request |-> [ headers |-> h,
                    url |-> [BuildUrl(SignConfig.endpoint, BucketName, key, SignConfig)
                                EXCEPT !.searchParams = q],
                    body |-> NoBody,
                    method |-> << "GET" >> ] ]

SignInputs ==
    {SignInput(h, << >>, key, now) : h \in HeaderMaps, key \in Keys, now \in SignClock}
        \cup {SignInput(<< >>, q, << "k", "1" >>, now) : q \in QueryLists, now \in Clock}

InitSign ==
    /\ config = SignConfig
    /\ store = [k \in Keys |-> Absent]
    /\ pc = "off"
    /\ op = NoOp
    /\ request = NoRequest
    /\ response = NoResponse
    /\ result = Pending
    /\ store0 = store
    /\ log = << >>
    /\ moved = NoMove
    /\ signIn \in SignInputs
    /\ signOut = NoSign
    /\ signLog = << >>
    /\ CoreIdle

\* signRequest(request, credentials, region) is called and returns
SignRequest ==
    /\ pc = "off"
    /\ ~signOut.done
    /\ signOut' = [ steps |-> SigningSteps(signIn.request, Credentials, config.region,
                                           << "s3" >>, signIn.now),
                    done |-> TRUE,
                    signed |-> signRequest(signIn.request, Credentials, config.region,
                                           << "s3" >>, signIn.now) ]
    /\ signLog' = Append(signLog, [input |-> signIn, output |-> signOut'.signed])
    /\ UNCHANGED << config, store, pc, op, request, response, result, store0, log, moved, signIn, coreVars >>

\* the caller prepares its next call of signRequest: the same request at the
\* same clock reading, or the request for another key at another time
SignAgain ==
    /\ pc = "off"
    /\ signOut.done
    /\ Len(signLog) < MaxCalls
    /\ \E key \in Keys, now \in SignClock :
         signIn' \in {signIn,
                      SignInput(signIn.request.headers, signIn.request.url.searchParams, key, now)}
    /\ signOut' = NoSign
    /\ UNCHANGED << config, store, pc, op, request, response, result, store0, log, moved, signLog, coreVars >>

NextSign ==
    \/ SignRequest
    \/ SignAgain

SpecSign == InitSign /\ [][NextSign]_vars

(* ------------------------------ Cache (cache.ts) ---------------------- *)
\* entries is the Map of the cache in insertion order; an entry is
\* [key, content, timestamp, sizeBytes]
calculateSize(content) ==
    IF content.type = "string" THEN Len(content.data) * 2 ELSE Len(content.data)

EntryIndex(c, key) ==
    LET hits == {i \in DOMAIN c.entries : c.entries[i].key = key}
    IN  IF hits = {} THEN 0 ELSE CHOOSE i \in hits : TRUE

RemoveAt(list, i) == SubSeq(list, 1, i - 1) \o SubSeq(list, i + 1, Len(list))

\* Cache.delete
CacheDelete(c, key) ==
    LET i == EntryIndex(c, key)
    IN  IF i = 0 THEN c
        ELSE [c EXCEPT !.currentMemorySize = @ - c.entries[i].sizeBytes,
                       !.entries = RemoveAt(@, i)]

\* mutant: an entry is returned whatever its age
CacheGet_NoExpiry(c, key, now) ==
    LET i == EntryIndex(c, key)
    IN  IF i = 0 THEN [value |-> Null, cache |-> c]
        ELSE [value |-> c.entries[i].content, cache |-> c]

\* Cache.get: the cache it leaves and the value it returns
CacheGet(c, key, now) ==
    LET i == EntryIndex(c, key)
    IN  IF i = 0 THEN [value |-> Null, cache |-> c]
        ELSE IF c.ttl # 0 /\ (now - c.entries[i].timestamp) > c.ttl
        THEN [value |-> Null, cache |-> CacheDelete(c, key)]
        ELSE [value |-> c.entries[i].content, cache |-> c]

\* Cache.evictLRU: the first entry, in map order, of the smallest timestamp
evictLRU(c) ==
    IF c.entries = << >> THEN c
    ELSE LET oldest == CHOOSE i \in DOMAIN c.entries :
                          /\ \A j \in DOMAIN c.entries :
                                c.entries[i].timestamp <= c.entries[j].timestamp
                          /\ \A j \in 1..(i - 1) :
                                c.entries[j].timestamp > c.entries[i].timestamp
         IN  [c EXCEPT !.currentMemorySize = @ - c.entries[oldest].sizeBytes,
                       !.entries = RemoveAt(@, oldest)]

RECURSIVE EvictUntilRoom(_, _, _, _)
\* the while (true) loop of Cache.set
EvictUntilRoom(c, key, existingSize, contentSize) ==
    LET newMemorySize == c.currentMemorySize - existingSize + contentSize
        exceedsMemoryLimit == c.maxMemorySize # NoLimit /\ newMemorySize > c.maxMemorySize
        exceedsSizeLimit ==
            c.maxSize # NoLimit /\ Len(c.entries) >= c.maxSize /\ EntryIndex(c, key) = 0
    IN  IF ~exceedsMemoryLimit /\ ~exceedsSizeLimit THEN c
        ELSE IF Len(c.entries) = 0 THEN c
        ELSE EvictUntilRoom(evictLRU(c), key, existingSize, contentSize)

\* mutant: the entry is added without making room
CacheSet_NoEviction(c, key, content, now) ==
    LET contentSize == calculateSize(content)
        entry == [key |-> key, content |-> content, sizeBytes |-> contentSize, timestamp |-> now]
        existing == EntryIndex(c, key)
        existingSize == IF existing # 0 THEN c.entries[existing].sizeBytes ELSE 0
    IN  [c EXCEPT !.currentMemorySize = @ - existingSize + contentSize,
                  !.entries = IF existing # 0 THEN [@ EXCEPT ![existing] = entry]
                              ELSE Append(@, entry)]

\* Cache.set
CacheSet(c, key, content, now) ==
    LET contentSize == calculateSize(content)
        entry == [key |-> key, content |-> content, sizeBytes |-> contentSize, timestamp |-> now]
        existing == EntryIndex(c, key)
        existingSize == IF existing # 0 THEN c.entries[existing].sizeBytes ELSE 0
        room == EvictUntilRoom(c, key, existingSize, contentSize)
        at == EntryIndex(room, key)
    IN  [room EXCEPT !.currentMemorySize = @ - existingSize + contentSize,
                     !.entries = IF at # 0 THEN [@ EXCEPT ![at] = entry] ELSE Append(@, entry)]

\* Cache.clear
CacheClear(c) == [c EXCEPT !.entries = << >>, !.currentMemorySize = 0]

(* ------------------------ a Cache used on its own --------------------- *)
CacheKeys == {<< "f", ToString(i) >> : i \in 1..NumCacheKeys}

\* contents of 2 and 4 bytes by calculateSize
CacheContents == {Val("bytes", << "0xFF", "0xFF" >>), Val("string", << "c", "1" >>)}

\* new Cache(maxSize, maxMemorySize, ttl) as the caller may construct it
CacheSettings == {NewCache(2, NoLimit, 0), NewCache(NoLimit, 5, 0), NewCache(2, 5, 1)}

\* the stored keys in order of their last read or write, after a call
Touch(usedNow, key, c) ==
    LET kept == SelectSeq(usedNow, LAMBDA k : k # key /\ EntryIndex(c, k) # 0)
    IN  IF EntryIndex(c, key) # 0 THEN Append(kept, key) ELSE kept

Called(name, key, value) ==
    [name |-> name, value |-> value, key |-> key, now |-> clock,
     before |-> cache, usedBefore |-> used, count |-> call.count + 1]

FileLayerOff ==
    /\ config = SignConfig
    /\ store = [k \in Keys |-> Absent]
    /\ pc = "off"
    /\ op = NoOp
    /\ request = NoRequest
    /\ response = NoResponse
    /\ result = Pending
    /\ store0 = store
    /\ log = << >>
    /\ moved = NoMove
    /\ signIn = SignIdle
    /\ signOut = NoSign
    /\ signLog = << >>

InitCache ==
    /\ FileLayerOff
    /\ cache \in CacheSettings
    /\ used = << >>
    /\ clock = 0
    /\ call = NoCall
    /\ bucketInstances = << >>
    /\ bucketCaches = << >>
    /\ pluginInstances = << >>
    /\ tasks = << >>
    /\ tokenCache = NoCachedToken

CacheSetCall(key, content) ==
    /\ call.count < MaxCacheCalls
    /\ cache' = CacheSet(cache, key, content, clock)
    /\ used' = Touch(used, key, cache')
    /\ call' = Called("set", key, Void)
    /\ UNCHANGED << clock, bucketInstances, bucketCaches, pluginInstances, tasks, tokenCache, s3Vars, signVars >>

CacheGetCall(key) ==
    /\ call.count < MaxCacheCalls
    /\ cache' = CacheGet(cache, key, clock).cache
    /\ used' = IF CacheGet(cache, key, clock).value = Null
               THEN SelectSeq(used, LAMBDA k : EntryIndex(cache', k) # 0)
               ELSE Touch(used, key, cache')
    /\ call' = Called("get", key, CacheGet(cache, key, clock).value)
    /\ UNCHANGED << clock, bucketInstances, bucketCaches, pluginInstances, tasks, tokenCache, s3Vars, signVars >>

CacheDeleteCall(key) ==
    /\ call.count < MaxCacheCalls
    /\ cache' = CacheDelete(cache, key)
    /\ used' = SelectSeq(used, LAMBDA k : EntryIndex(cache', k) # 0)
    /\ call' = Called("delete", key, Void)
    /\ UNCHANGED << clock, bucketInstances, bucketCaches, pluginInstances, tasks, tokenCache, s3Vars, signVars >>

CacheClearCall ==
    /\ call.count < MaxCacheCalls
    /\ cache' = CacheClear(cache)
    /\ used' = << >>
    /\ call' = Called("clear", << >>, Void)
    /\ UNCHANGED << clock, bucketInstances, bucketCaches, pluginInstances, tasks, tokenCache, s3Vars, signVars >>

\* time passes
Tick ==
    /\ clock < MaxClock
    /\ clock' = clock + 1
    /\ UNCHANGED << cache, used, call, bucketInstances, bucketCaches, pluginInstances, tasks, tokenCache, s3Vars, signVars >>

NextCache ==
    \/ \E key \in CacheKeys, content \in CacheContents : CacheSetCall(key, content)
    \/ \E key \in CacheKeys : CacheGetCall(key)
    \/ \E key \in CacheKeys : CacheDeleteCall(key)
    \/ CacheClearCall
    \/ Tick

SpecCache == InitCache /\ [][NextCache]_vars

(* ------- bucketConfig.ts, cache.ts, bucketCore.ts: the file layer ------ *)
\* the Maps are lists of << key, value >> in insertion order
\* Map.delete(name)
MapDelete(map, name) == SelectSeq(map, LAMBDA e : e[1] # name)

\* Array.from(map.keys())
MapKeys(map) == [i \in DOMAIN map |-> map[i][1]]

\* Array.from(map.keys())[0]
FirstKey(map) == IF map = << >> THEN Undefined ELSE map[1][1]

\* config.cache.maxSize ?? 1000
DefaultMaxSize == 1000

\* name || Array.from(bucketInstances.keys())[0]
InstanceName(instances, name) == IF Falsy(name) THEN FirstKey(instances) ELSE name

\* getBucket returns the instance, and throws where this is FALSE
BucketFound(instances, name) ==
    /\ ~Falsy(InstanceName(instances, name))
    /\ ObjHas(instances, InstanceName(instances, name))

getBucket(instances, name) == ObjGet(instances, InstanceName(instances, name))

\* listBuckets
listBuckets(instances) == MapKeys(instances)

\* bucketName || Array.from(bucketCaches.keys())[0]
CacheName(caches, bucketName) == IF Falsy(bucketName) THEN FirstKey(caches) ELSE bucketName

\* cache.ts getCache returns a Cache where this is TRUE, and null elsewhere
HasCache(caches, bucketName) == ObjHas(caches, CacheName(caches, bucketName))

getCache(caches, bucketName) == ObjGet(caches, CacheName(caches, bucketName))

\* config.cache: defined is FALSE where the configuration has no cache entry
CacheOptions(defined, enabled, includeReads, includeWrites) ==
    [defined |-> defined, enabled |-> enabled,
     includeReads |-> includeReads, includeWrites |-> includeWrites]

\* config.cache?.enabled and bucket.cacheOptions?.enabled
CacheEnabled(cacheOptions) == cacheOptions.defined /\ cacheOptions.enabled

\* BucketConfig: the fields the file layer and the plugins read
BucketConfig(provider, bucketName, credentials, cacheOptions) ==
    [credentials |-> credentials, bucketName |-> bucketName,
     cache |-> cacheOptions, provider |-> provider]

\* `${provider}:${bucketName}`
InstanceKey(bucketConfig) == bucketConfig.provider \o << ":" >> \o bucketConfig.bucketName

\* createPlugin(config): a plugin that keeps the settings it was given, and
\* for the memory provider a new, empty MemoryStorage
createPlugin(bucketConfig) == [credentials |-> bucketConfig.credentials, files |-> << >>]

\* PluginRegistry.getPlugin: pluginInstances after the call; the plugin the
\* call returns is the one under InstanceKey(config)
getPlugin(plugins, bucketConfig) ==
    IF ObjHas(plugins, InstanceKey(bucketConfig)) THEN plugins
    ELSE ObjSet(plugins, InstanceKey(bucketConfig), createPlugin(bucketConfig))

\* the plugin of an instance is the one pluginRegistry.getPlugin(config)
\* returned to initBucket
PluginOfInstance(bucketConfig) == InstanceKey(bucketConfig)

\* the registries and the value a call returns or the error it throws
World(instances, caches, plugins, outcome) ==
    [instances |-> instances, caches |-> caches, plugins |-> plugins, outcome |-> outcome]

\* initBucket: the instance is registered with its plugin, and a new Cache
\* when config.cache.enabled
initBucket(instances, caches, plugins, bucketConfig, name) ==
    LET instanceName == IF Falsy(name) THEN bucketConfig.bucketName ELSE name
        instance == [bucketName |-> bucketConfig.bucketName,
                     cacheOptions |-> bucketConfig.cache,
                     plugin |-> PluginOfInstance(bucketConfig)]
    IN  World(ObjSet(instances, instanceName, instance),
              IF CacheEnabled(bucketConfig.cache)
              THEN ObjSet(caches, instanceName, NewCache(DefaultMaxSize, NoLimit, 0))
              ELSE caches,
              getPlugin(plugins, bucketConfig),
              Return(Val("string", instanceName)))

RECURSIVE RemoveCaches(_, _)
\* bucketNames.forEach((name) => removeCache(name))
RemoveCaches(caches, instances) ==
    IF instances = << >> THEN caches
    ELSE RemoveCaches(MapDelete(caches, instances[1][1]), Tail(instances))

\* mutant: the caches stay when every bucket is reset
resetBucket_KeepsCaches(instances, caches, plugins, name) ==
    IF ~Falsy(name)
    THEN World(MapDelete(instances, name), MapDelete(caches, name), plugins, Return(Void))
    ELSE World(<< >>, caches, plugins, Return(Void))

resetBucket(instances, caches, plugins, name) ==
    IF ~Falsy(name)
    THEN World(MapDelete(instances, name), MapDelete(caches, name), plugins, Return(Void))
    ELSE World(<< >>, RemoveCaches(caches, instances), plugins, Return(Void))

\* cache.ts getCacheStats: size, maxSize, memorySize, maxMemorySize
CacheStats(c) ==
    Val("object", << Len(c.entries), c.maxSize, c.currentMemorySize, c.maxMemorySize >>)

getCacheStats(caches, bucketName) ==
    IF ~HasCache(caches, bucketName) THEN Null
    ELSE CacheStats(getCache(caches, bucketName))

NotInitialized == << "Bucket instance not found. Call initBucket() first." >>

\* `${bucket.bucketName}:${path}`
CacheKey(bucket, path) == bucket.bucketName \o << ":" >> \o path

\* MemoryStorage.files of the plugin of a bucket
Files(plugins, bucket) == ObjGet(plugins, bucket.plugin).files

WithFiles(plugins, bucket, files) ==
    ObjSet(plugins, bucket.plugin, [ObjGet(plugins, bucket.plugin) EXCEPT !.files = files])

\* MemoryStorage.write
StoredBytes(content) ==
    IF content.type = "string" THEN TextEncode(content.data) ELSE content.data

\* MemoryPlugin.read
PluginRead(plugins, bucket, path) ==
    IF ~ObjHas(Files(plugins, bucket), path) THEN Null
    ELSE Val("string", TextDecode(ObjGet(Files(plugins, bucket), path)))

\* MemoryPlugin.readBuffer
PluginReadBuffer(plugins, bucket, path) ==
    IF ~ObjHas(Files(plugins, bucket), path) THEN Null
    ELSE Val("bytes", ObjGet(Files(plugins, bucket), path))

\* MemoryPlugin.exists
PluginExists(plugins, bucket, path) == ObjHas(Files(plugins, bucket), path)

\* prefix.startsWith
HasPrefix(text, prefix) ==
    Len(prefix) <= Len(text) /\ SubSeq(text, 1, Len(prefix)) = prefix

\* MemoryPlugin.list
PluginList(plugins, bucket, prefix) ==
    IF Falsy(prefix) THEN MapKeys(Files(plugins, bucket))
    ELSE SelectSeq(MapKeys(Files(plugins, bucket)), LAMBDA p : HasPrefix(p, prefix))

\* bucket.cacheOptions?.includeReads !== false
ReadsCached(caches, bucket, bucketName) ==
    /\ HasCache(caches, bucketName)
    /\ CacheEnabled(bucket.cacheOptions)
    /\ bucket.cacheOptions.includeReads

\* bucket.cacheOptions?.includeWrites !== false
WritesCached(caches, bucket, bucketName) ==
    /\ HasCache(caches, bucketName)
    /\ CacheEnabled(bucket.cacheOptions)
    /\ bucket.cacheOptions.includeWrites

writeFile(instances, caches, plugins, path, content, bucketName, now) ==
    IF ~BucketFound(instances, bucketName)
    THEN World(instances, caches, plugins, Throw(NotInitialized))
    ELSE LET bucket == getBucket(instances, bucketName)
         IN  World(instances,
                   IF WritesCached(caches, bucket, bucketName)
                   THEN ObjSet(caches, CacheName(caches, bucketName),
                               CacheSet(getCache(caches, bucketName), CacheKey(bucket, path), content, now))
                   ELSE caches,
                   WithFiles(plugins, bucket,
                             ObjSet(Files(plugins, bucket), path, StoredBytes(content))),
                   Return(Void))

\* the part readFile and readBuffer share: the cache is asked first, and what
\* the plugin returns is put into it; fromCache turns the cached content into
\* the type of the call
ReadThrough(instances, caches, plugins, path, bucketName, now, fromPlugin, fromCache) ==
    LET bucket == getBucket(instances, bucketName)
        asked == ReadsCached(caches, bucket, bucketName)
        found == IF asked
                 THEN CacheGet(getCache(caches, bucketName), CacheKey(bucket, path), now)
                 ELSE [value |-> Null, cache |-> Undefined]
        looked == IF asked
                  THEN ObjSet(caches, CacheName(caches, bucketName), found.cache)
                  ELSE caches
    IN  IF found.value # Null THEN World(instances, looked, plugins, Return(fromCache))
        ELSE World(instances,
                   IF fromPlugin # Null /\ asked
                   THEN ObjSet(looked, CacheName(caches, bucketName),
                               CacheSet(found.cache, CacheKey(bucket, path), fromPlugin, now))
                   ELSE looked,
                   plugins,
                   Return(fromPlugin))

\* what a read finds in the cache for path, Null when it does not ask or
\* finds nothing
Cached(instances, caches, path, bucketName, now) ==
    LET bucket == getBucket(instances, bucketName)
    IN  IF ReadsCached(caches, bucket, bucketName)
        THEN CacheGet(getCache(caches, bucketName), CacheKey(bucket, path), now).value
        ELSE Null

readFile(instances, caches, plugins, path, bucketName, now) ==
    IF ~BucketFound(instances, bucketName)
    THEN World(instances, caches, plugins, Throw(NotInitialized))
    ELSE LET cachedContent == Cached(instances, caches, path, bucketName, now)
         IN  ReadThrough(instances, caches, plugins, path, bucketName, now,
                         PluginRead(plugins, getBucket(instances, bucketName), path),
                         IF cachedContent.type = "string" THEN cachedContent
                         ELSE Val("string", TextDecode(cachedContent.data)))

readBuffer(instances, caches, plugins, path, bucketName, now) ==
    IF ~BucketFound(instances, bucketName)
    THEN World(instances, caches, plugins, Throw(NotInitialized))
    ELSE LET cachedContent == Cached(instances, caches, path, bucketName, now)
         IN  ReadThrough(instances, caches, plugins, path, bucketName, now,
                         PluginReadBuffer(plugins, getBucket(instances, bucketName), path),
                         IF cachedContent.type = "string"
                         THEN Val("bytes", TextEncode(cachedContent.data))
                         ELSE cachedContent)

deleteFile(instances, caches, plugins, path, bucketName) ==
    IF ~BucketFound(instances, bucketName)
    THEN World(instances, caches, plugins, Throw(NotInitialized))
    ELSE LET bucket == getBucket(instances, bucketName)
         IN  World(instances,
                   IF HasCache(caches, bucketName)
                   THEN ObjSet(caches, CacheName(caches, bucketName),
                               CacheDelete(getCache(caches, bucketName), CacheKey(bucket, path)))
                   ELSE caches,
                   WithFiles(plugins, bucket, MapDelete(Files(plugins, bucket), path)),
                   Return(Void))

FailedToMove == << "Failed to move/rename file" >>

\* MemoryPlugin.move: storage.copy, then storage.delete
PluginMove(files, oldPath, newPath) ==
    MapDelete(ObjSet(files, newPath, ObjGet(files, oldPath)), oldPath)

moveFile(instances, caches, plugins, oldPath, newPath, bucketName, now) ==
    IF ~BucketFound(instances, bucketName)
    THEN World(instances, caches, plugins, Throw(NotInitialized))
    ELSE LET bucket == getBucket(instances, bucketName)
             held == HasCache(caches, bucketName)
             got == IF held
                    THEN CacheGet(getCache(caches, bucketName), CacheKey(bucket, oldPath), now)
                    ELSE [value |-> Null, cache |-> Undefined]
             cachedContent == got.value
             emptied == IF held
                        THEN ObjSet(caches, CacheName(caches, bucketName),
                                    CacheDelete(CacheDelete(got.cache, CacheKey(bucket, oldPath)),
                                                CacheKey(bucket, newPath)))
                        ELSE caches
         IN  IF ~ObjHas(Files(plugins, bucket), oldPath)
             THEN World(instances, emptied, plugins, Throw(FailedToMove))
             ELSE World(instances,
                        IF held /\ cachedContent # Null /\ CacheEnabled(bucket.cacheOptions)
                        THEN ObjSet(emptied, CacheName(caches, bucketName),
                                    CacheSet(getCache(emptied, bucketName),
                                             CacheKey(bucket, newPath), cachedContent, now))
                        ELSE emptied,
                        WithFiles(plugins, bucket,
                                  PluginMove(Files(plugins, bucket), oldPath, newPath)),
                        Return(Void))

fileExists(instances, caches, plugins, path, bucketName) ==
    IF ~BucketFound(instances, bucketName)
    THEN World(instances, caches, plugins, Throw(NotInitialized))
    ELSE World(instances, caches, plugins,
               Return(Bool(PluginExists(plugins, getBucket(instances, bucketName), path))))

listFiles(instances, caches, plugins, prefix, bucketName) ==
    IF ~BucketFound(instances, bucketName)
    THEN World(instances, caches, plugins, Throw(NotInitialized))
    ELSE World(instances, caches, plugins,
               Return(Val("array", PluginList(plugins, getBucket(instances, bucketName), prefix))))

(* --------------------- the file layer in use --------------------------- *)
NumPaths == 2

Paths == {<< "p", ToString(i) >> : i \in 1..NumPaths}

\* a text, and bytes that are not valid UTF-8
FileContents == {Val("string", << "c", "1" >>), Val("bytes", << "0xFF" >>)}

BucketA == << "A" >>

BucketB == << "B" >>

Memory == << "memory" >>

\* config.cache: left out, disabled, or enabled with includeReads and
\* includeWrites, where undefined counts as true
CachingOn == {CacheOptions(TRUE, TRUE, r, w) : r, w \in BOOLEAN}

CacheOptionSets ==
    {CacheOptions(FALSE, FALSE, TRUE, TRUE), CacheOptions(TRUE, FALSE, TRUE, TRUE)} \cup CachingOn

BucketConfigs == {BucketConfig(Memory, BucketA, Undefined, o) : o \in CacheOptionSets}

MaxFileCalls == 4

NoFileCall ==
    [name |-> "none", value |-> Void, key |-> << >>, count |-> 0,
     outcome |-> Return(Void), bucket |-> Undefined, succeeded |-> TRUE]

\* the call just made; succeeded stays TRUE while no writeFile, deleteFile
\* or moveFile has thrown
FileCalled(name, bucketName, key, world) ==
    [name |-> name, value |-> world.outcome.value, key |-> key, count |-> call.count + 1,
     outcome |-> world.outcome, bucket |-> bucketName,
     succeeded |-> call.succeeded
                     /\ (name \in {"writeFile", "deleteFile", "moveFile"}
                           => world.outcome.kind = "return")]

\* the names of the registered instances in the order in which they were
\* initialised, after the call
Registered(name, bucketName, world) ==
    IF name = "initBucket"
    THEN IF \E i \in DOMAIN used : used[i] = world.outcome.value.data THEN used
         ELSE Append(used, world.outcome.value.data)
    ELSE IF name = "resetBucket"
    THEN IF Falsy(bucketName) THEN << >> ELSE SelectSeq(used, LAMBDA n : n # bucketName)
    ELSE used

FileCall(name, bucketName, key, world) ==
    /\ call.count < MaxFileCalls
    /\ bucketInstances' = world.instances
    /\ bucketCaches' = world.caches
    /\ pluginInstances' = world.plugins
    /\ used' = Registered(name, bucketName, world)
    /\ call' = FileCalled(name, bucketName, key, world)
    /\ UNCHANGED << cache, clock, tasks, tokenCache, s3Vars, signVars >>

InitBucket(bucketConfig, name) ==
    FileCall("initBucket", name, << >>,
             initBucket(bucketInstances, bucketCaches, pluginInstances, bucketConfig, name))

ResetBucket(name) ==
    FileCall("resetBucket", name, << >>,
             resetBucket(bucketInstances, bucketCaches, pluginInstances, name))

\* getBucket(name): the instance is told by the name it is registered under
GetBucket(name) ==
    FileCall("getBucket", name, << >>,
             World(bucketInstances, bucketCaches, pluginInstances,
                   IF BucketFound(bucketInstances, name)
                   THEN Return(Val("object", InstanceName(bucketInstances, name)))
                   ELSE Throw(NotInitialized)))

ListBuckets ==
    FileCall("listBuckets", Undefined, << >>,
             World(bucketInstances, bucketCaches, pluginInstances,
                   Return(Val("array", listBuckets(bucketInstances)))))

GetCacheStats(bucketName) ==
    FileCall("getCacheStats", bucketName, << >>,
             World(bucketInstances, bucketCaches, pluginInstances,
                   Return(getCacheStats(bucketCaches, bucketName))))

WriteFile(path, content, bucketName) ==
    FileCall("writeFile", bucketName, path,
             writeFile(bucketInstances, bucketCaches, pluginInstances, path, content, bucketName, clock))

ReadFile(path, bucketName) ==
    FileCall("readFile", bucketName, path,
             readFile(bucketInstances, bucketCaches, pluginInstances, path, bucketName, clock))

ReadBuffer(path, bucketName) ==
    FileCall("readBuffer", bucketName, path,
             readBuffer(bucketInstances, bucketCaches, pluginInstances, path, bucketName, clock))

DeleteFile(path, bucketName) ==
    FileCall("deleteFile", bucketName, path,
             deleteFile(bucketInstances, bucketCaches, pluginInstances, path, bucketName))

MoveFile(oldPath, newPath, bucketName) ==
    FileCall("moveFile", bucketName, << oldPath, newPath >>,
             moveFile(bucketInstances, bucketCaches, pluginInstances, oldPath, newPath, bucketName, clock))

FileExists(path, bucketName) ==
    FileCall("fileExists", bucketName, path,
             fileExists(bucketInstances, bucketCaches, pluginInstances, path, bucketName))

CacheIdle ==
    /\ cache = NewCache(NoLimit, NoLimit, 0)
    /\ clock = 0

\* no call of the file layer is under way, and no token has been fetched
NoTasks == tasks = << >> /\ tokenCache = NoCachedToken

\* the registries are those of world, reached by initBucket calls alone
Initialised(world) ==
    /\ bucketInstances = world.instances
    /\ bucketCaches = world.caches
    /\ pluginInstances = world.plugins
    /\ used = MapKeys(world.instances)

\* one bucket, initialised with caching enabled
InitFiles ==
    /\ FileLayerOff
    /\ CacheIdle
    /\ NoTasks
    /\ call = NoFileCall
    /\ \E o \in CachingOn :
         Initialised(initBucket(<< >>, << >>, << >>,
                                BucketConfig(Memory, BucketA, Undefined, o), Undefined))

NextFiles ==
    \/ \E path \in Paths, content \in FileContents, b \in {Undefined, BucketA} : WriteFile(path, content, b)
    \/ \E path \in Paths, b \in {Undefined, BucketA} : ReadFile(path, b)
    \/ \E path \in Paths, b \in {Undefined, BucketA} : ReadBuffer(path, b)
    \/ \E path \in Paths, b \in {Undefined, BucketA} : DeleteFile(path, b)
    \/ \E oldPath \in Paths, newPath \in Paths, b \in {Undefined, BucketA} : MoveFile(oldPath, newPath, b)
    \/ \E path \in Paths, b \in {Undefined, BucketA} : FileExists(path, b)

SpecFiles == InitFiles /\ [][NextFiles]_vars

\* no bucket yet: buckets are initialised and reset, with and without a cache
InitRegistry ==
    /\ FileLayerOff
    /\ CacheIdle
    /\ NoTasks
    /\ call = NoFileCall
    /\ used = << >>
    /\ bucketInstances = << >>
    /\ bucketCaches = << >>
    /\ pluginInstances = << >>

NextRegistry ==
    \/ \E bucketConfig \in BucketConfigs, name \in {Undefined, BucketB} : InitBucket(bucketConfig, name)
    \/ \E name \in {Undefined, BucketA, BucketB} : ResetBucket(name)
    \/ \E name \in {Undefined, BucketA, BucketB} : GetCacheStats(name)
    \/ \E name \in {Undefined, BucketA, BucketB} : GetBucket(name)
    \/ ListBuckets
    \/ \E path \in Paths, name \in {Undefined, BucketA, BucketB} :
         WriteFile(path, Val("string", << "c", "1" >>), name)

SpecRegistry == InitRegistry /\ [][NextRegistry]_vars

ListFiles(prefix, bucketName) ==
    FileCall("listFiles", bucketName, prefix,
             listFiles(bucketInstances, bucketCaches, pluginInstances, prefix, bucketName))

\* with or without caching of reads and writes
TwoBucketOptions == {CacheOptions(FALSE, FALSE, TRUE, TRUE), CacheOptions(TRUE, TRUE, TRUE, TRUE)}

\* initBucket(first) and then initBucket(second, "B")
TwoBuckets(first, second) ==
    LET one == initBucket(<< >>, << >>, << >>, first, Undefined)
    IN  initBucket(one.instances, one.caches, one.plugins, second, BucketB)

\* two instances, named A and B, of memory buckets with the same or with
\* different bucket names
InitTwoBuckets ==
    /\ FileLayerOff
    /\ CacheIdle
    /\ NoTasks
    /\ call = NoFileCall
    /\ \E o1 \in TwoBucketOptions, o2 \in TwoBucketOptions, bucketName \in {BucketA, BucketB} :
         Initialised(TwoBuckets(BucketConfig(Memory, BucketA, Undefined, o1),
                                BucketConfig(Memory, bucketName, Undefined, o2)))

NextTwoBuckets ==
    \/ \E path \in Paths, content \in FileContents, b \in {BucketA, BucketB} : WriteFile(path, content, b)
    \/ \E path \in Paths, b \in {BucketA, BucketB} : ReadFile(path, b)
    \/ \E path \in Paths, b \in {BucketA, BucketB} : DeleteFile(path, b)
    \/ \E oldPath \in Paths, newPath \in Paths, b \in {BucketA, BucketB} : MoveFile(oldPath, newPath, b)
    \/ \E path \in Paths, b \in {BucketA, BucketB} : FileExists(path, b)
    \/ \E prefix \in {Undefined, << "p" >>}, b \in {BucketA, BucketB} : ListFiles(prefix, b)

SpecTwoBuckets == InitTwoBuckets /\ [][NextTwoBuckets]_vars

(* ------------- bucketCore.ts: calls that overlap at an await ------------ *)
\* An async function runs without interruption up to its await of the plugin
\* call and again from there to its return.  The plugin acts on the storage
\* when it is called; the order in which the awaiting calls are resumed is
\* the order in which the plugin settles its promises.
Task(name, path, content) ==
    [name |-> name, path |-> path, pc |-> "call", content |-> content,
     outcome |-> Return(Void), read |-> Null]

Await(task, read) == [task EXCEPT !.pc = "await", !.read = read]

Done(task, outcome) == [task EXCEPT !.pc = "done", !.outcome = outcome]

TaskStep(t, task, caches, plugins) ==
    /\ tasks' = [tasks EXCEPT ![t] = task]
    /\ bucketCaches' = caches
    /\ pluginInstances' = plugins
    /\ UNCHANGED << cache, used, clock, call, bucketInstances, tokenCache, s3Vars, signVars >>

\* the calls run concurrently: each was made before any of them was resumed
AllCalled == \A t \in DOMAIN tasks : tasks[t].pc # "call"

\* readFile up to `await bucket.plugin.read(...)`, or to the return of the
\* cached content
ReadFileCall(t) ==
    /\ tasks[t].name = "readFile" /\ tasks[t].pc = "call"
    /\ LET bucket == getBucket(bucketInstances, BucketA)
           asked == ReadsCached(bucketCaches, bucket, BucketA)
           found == IF asked
                    THEN CacheGet(getCache(bucketCaches, BucketA), CacheKey(bucket, tasks[t].path), clock)
                    ELSE [value |-> Null, cache |-> Undefined]
           looked == IF asked THEN ObjSet(bucketCaches, BucketA, found.cache) ELSE bucketCaches
       IN  IF found.value # Null
           THEN TaskStep(t, Done(tasks[t], Return(IF found.value.type = "string" THEN found.value
                                                   ELSE Val("string", TextDecode(found.value.data)))),
                         looked, pluginInstances)
           ELSE TaskStep(t, Await(tasks[t], PluginRead(pluginInstances, bucket, tasks[t].path)),
                         looked, pluginInstances)

\* readFile from the await on: cache.set(cacheKey, content) and the return
ReadFileResume(t) ==
    /\ tasks[t].name = "readFile" /\ tasks[t].pc = "await"
    /\ AllCalled
    /\ LET bucket == getBucket(bucketInstances, BucketA)
       IN  TaskStep(t, Done(tasks[t], Return(tasks[t].read)),
                    IF tasks[t].read # Null /\ ReadsCached(bucketCaches, bucket, BucketA)
                    THEN ObjSet(bucketCaches, BucketA,
                                CacheSet(getCache(bucketCaches, BucketA),
                                         CacheKey(bucket, tasks[t].path), tasks[t].read, clock))
                    ELSE bucketCaches,
                    pluginInstances)

\* writeFile up to `await bucket.plugin.write(...)`
WriteFileCall(t) ==
    /\ tasks[t].name = "writeFile" /\ tasks[t].pc = "call"
    /\ LET bucket == getBucket(bucketInstances, BucketA)
       IN  TaskStep(t, Await(tasks[t], Null), bucketCaches,
                    WithFiles(pluginInstances, bucket,
                              ObjSet(Files(pluginInstances, bucket), tasks[t].path,
                                     StoredBytes(tasks[t].content))))

\* writeFile from the await on: cache.set(cacheKey, content)
WriteFileResume(t) ==
    /\ tasks[t].name = "writeFile" /\ tasks[t].pc = "await"
    /\ AllCalled
    /\ LET bucket == getBucket(bucketInstances, BucketA)
       IN  TaskStep(t, Done(tasks[t], Return(Void)),
                    IF WritesCached(bucketCaches, bucket, BucketA)
                    THEN ObjSet(bucketCaches, BucketA,
                                CacheSet(getCache(bucketCaches, BucketA),
                                         CacheKey(bucket, tasks[t].path), tasks[t].content, clock))
                    ELSE bucketCaches,
                    pluginInstances)

\* deleteFile up to `await bucket.plugin.delete(...)`
DeleteFileCall(t) ==
    /\ tasks[t].name = "deleteFile" /\ tasks[t].pc = "call"
    /\ LET bucket == getBucket(bucketInstances, BucketA)
       IN  TaskStep(t, Await(tasks[t], Null), bucketCaches,
                    WithFiles(pluginInstances, bucket,
                              MapDelete(Files(pluginInstances, bucket), tasks[t].path)))

\* deleteFile from the await on: cache.delete(cacheKey)
DeleteFileResume(t) ==
    /\ tasks[t].name = "deleteFile" /\ tasks[t].pc = "await"
    /\ AllCalled
    /\ LET bucket == getBucket(bucketInstances, BucketA)
       IN  TaskStep(t, Done(tasks[t], Return(Void)),
                    IF HasCache(bucketCaches, BucketA)
                    THEN ObjSet(bucketCaches, BucketA,
                                CacheDelete(getCache(bucketCaches, BucketA),
                                            CacheKey(bucket, tasks[t].path)))
                    ELSE bucketCaches,
                    pluginInstances)

TextContents == {Val("string", << "c", ToString(i) >>) : i \in 1..2}

\* the bucket after initBucket with caching of reads; before is the empty
\* list or one writeFile that has returned
Prepared(cacheOptions, before) ==
    LET one == initBucket(<< >>, << >>, << >>,
                          BucketConfig(Memory, BucketA, Undefined, cacheOptions), Undefined)
    IN  IF before = << >> THEN one
        ELSE writeFile(one.instances, one.caches, one.plugins,
                       before[1].path, before[1].content, BucketA, 0)

\* a readFile and a writeFile or deleteFile have been called and none has run
InitRace ==
    /\ FileLayerOff
    /\ CacheIdle
    /\ tokenCache = NoCachedToken
    /\ call = NoFileCall
    /\ \E includeWrites \in BOOLEAN,
          before \in {<< >>} \cup {<< Task("writeFile", p, c) >> : p \in Paths, c \in TextContents} :
         Initialised(Prepared(CacheOptions(TRUE, TRUE, TRUE, includeWrites), before))
    /\ \E reader \in {Task("readFile", p, Void) : p \in Paths},
          writer \in {Task("writeFile", p, c) : p \in Paths, c \in TextContents}
                       \cup {Task("deleteFile", p, Void) : p \in Paths} :
         tasks = << reader, writer >>

NextRace ==
    \/ \E t \in DOMAIN tasks : ReadFileCall(t)
    \/ \E t \in DOMAIN tasks : ReadFileResume(t)
    \/ \E t \in DOMAIN tasks : WriteFileCall(t)
    \/ \E t \in DOMAIN tasks : WriteFileResume(t)
    \/ \E t \in DOMAIN tasks : DeleteFileCall(t)
    \/ \E t \in DOMAIN tasks : DeleteFileResume(t)

SpecRace == InitRace /\ [][NextRace]_vars

(* ---------------- PluginRegistry used on its own ------------------------ *)
AwsS3 == << "aws-s3" >>

CloudflareR2 == << "cf-r2" >>

\* accessKeyId and secretAccessKey of two accounts
AccessKeys == {<< "AKIA1", "secret1" >>, << "AKIA2", "secret2" >>}

PluginConfigs ==
    {BucketConfig(provider, bucketName, credentials, CacheOptions(FALSE, FALSE, TRUE, TRUE)) :
       provider \in {AwsS3, CloudflareR2}, bucketName \in {BucketA, BucketB}, credentials \in AccessKeys}

MaxPluginCalls == 3

NoPlugin == [credentials |-> << >>, files |-> << >>]

NoPluginCall ==
    [name |-> "none", config |-> BucketConfig(<< >>, << >>, << >>, CacheOptions(FALSE, FALSE, TRUE, TRUE)), count |-> 0,
     plugin |-> NoPlugin]

PluginCall(name, bucketConfig, plugin, plugins) ==
    /\ call.count < MaxPluginCalls
    /\ pluginInstances' = plugins
    /\ call' = [name |-> name, config |-> bucketConfig, count |-> call.count + 1, plugin |-> plugin]
    /\ UNCHANGED << cache, used, clock, bucketInstances, bucketCaches, tasks, tokenCache,
                    s3Vars, signVars >>

\* pluginRegistry.getPlugin(config): the plugin it returns is kept in call
GetPlugin(bucketConfig) ==
    PluginCall("getPlugin", bucketConfig,
               ObjGet(getPlugin(pluginInstances, bucketConfig), InstanceKey(bucketConfig)),
               getPlugin(pluginInstances, bucketConfig))

\* pluginRegistry.clearInstances()
ClearInstances == PluginCall("clearInstances", NoPluginCall.config, NoPlugin, << >>)

InitPlugins ==
    /\ FileLayerOff
    /\ CacheIdle
    /\ NoTasks
    /\ Initialised(World(<< >>, << >>, << >>, Return(Void)))
    /\ call = NoPluginCall

NextPlugins ==
    \/ \E bucketConfig \in PluginConfigs : GetPlugin(bucketConfig)
    \/ ClearInstances

SpecPlugins == InitPlugins /\ [][NextPlugins]_vars

(* ------------------- gcs/auth.ts: the access token --------------------- *)
\* Date.now() is counted in minutes here
OneMinute == 1

\* Date.now() + 3540000
TokenLifetime == 59

DEFAULT_GCS_SCOPE == << "https://www.googleapis.com/auth/devstorage.read_write" >>

ServiceAccountCredentials(clientEmail, scope) ==
    [clientEmail |-> clientEmail, scope |-> scope, privateKey |-> << "key of " >> \o clientEmail]

\* credentials.scope || DEFAULT_GCS_SCOPE
ScopeOf(credentials) == IF Falsy(credentials.scope) THEN DEFAULT_GCS_SCOPE ELSE credentials.scope

TokenOutcome(kind, accessToken, fromCache) ==
    [kind |-> kind, accessToken |-> accessToken, fromCache |-> fromCache]

\* getAccessToken: what it returns or throws and the tokenCache it leaves;
\* exchanged tells whether the token endpoint answers the JWT with a token
getAccessToken(cached, credentials, now, exchanged) ==
    IF cached.defined /\ cached.expiresAt > now + OneMinute
    THEN [tokenCache |-> cached, outcome |-> TokenOutcome("return", cached.accessToken, TRUE)]
    ELSE IF ~exchanged
    THEN [tokenCache |-> cached, outcome |-> TokenOutcome("throw", NoCachedToken.accessToken, FALSE)]
    ELSE LET accessToken == AccessToken(credentials.clientEmail, ScopeOf(credentials), now)
         IN  [tokenCache |-> [defined |-> TRUE, accessToken |-> accessToken,
                              expiresAt |-> now + TokenLifetime],
              outcome |-> TokenOutcome("return", accessToken, FALSE)]

ServiceAccounts ==
    {ServiceAccountCredentials(clientEmail, scope) :
       clientEmail \in {<< "a@project" >>, << "b@project" >>},
       scope \in {Undefined, << "https://www.googleapis.com/auth/devstorage.read_only" >>}}

MaxTokenCalls == 2

MaxMinutes == 60

NoTokenCall ==
    [name |-> "none", now |-> 0, credentials |-> ServiceAccountCredentials(<< >>, Undefined),
     before |-> NoCachedToken, count |-> 0,
     outcome |-> TokenOutcome("none", NoCachedToken.accessToken, FALSE)]

GetAccessToken(credentials, exchanged) ==
    /\ call.count < MaxTokenCalls
    /\ tokenCache' = getAccessToken(tokenCache, credentials, clock, exchanged).tokenCache
    /\ call' = [name |-> "getAccessToken", now |-> clock, credentials |-> credentials,
                before |-> tokenCache, count |-> call.count + 1,
                outcome |-> getAccessToken(tokenCache, credentials, clock, exchanged).outcome]
    /\ UNCHANGED << cache, used, clock, bucketInstances, bucketCaches, pluginInstances, tasks,
                    s3Vars, signVars >>

\* time passes between the calls
Elapse(minutes) ==
    /\ clock + minutes <= MaxMinutes
    /\ clock' = clock + minutes
    /\ UNCHANGED << cache, used, call, bucketInstances, bucketCaches, pluginInstances, tasks,
                    tokenCache, s3Vars, signVars >>

InitToken ==
    /\ FileLayerOff
    /\ CacheIdle
    /\ NoTasks
    /\ Initialised(World(<< >>, << >>, << >>, Return(Void)))
    /\ call = NoTokenCall

NextToken ==
    \/ \E credentials \in ServiceAccounts, exchanged \in BOOLEAN : GetAccessToken(credentials, exchanged)
    \/ \E minutes \in {OneMinute, TokenLifetime - 2 * OneMinute} : Elapse(minutes)

SpecToken == InitToken /\ [][NextToken]_vars

(* ------------------------------ properties ---------------------------- *)
Downloads == {"downloadObjectAsString", "downloadObjectAsBuffer"}

VendorMessages ==
    { << "The specified key does not exist." >>, << "Access Denied" >>,
      << "The specified bucket does not exist" >>, << "Not Found" >>,
      << "File not found", " in backend" >> }

\* the response body is an error document, XML or JSON, with this vendor code
CarriesCode(r, code) ==
    \E m \in VendorMessages : r.body \in {XmlError(code, m), JsonError(code, m)}

CarriesMessage(r, m) ==
    \E code \in {<< "NoSuchKey" >>, << "NoSuchBucket" >>, << "AccessDenied" >>, << "InternalError" >>} :
        r.body \in {XmlError(code, m), JsonError(code, m)}

NotFoundAnswer(r) == r.kind = "http" /\ r.status = 404 /\ CarriesCode(r, << "NoSuchKey" >>)

VirtualHostedUrl(url, endpoint, key) ==
    /\ url.host = BucketName \o << "." >> \o Tail(endpoint)
    /\ url.pathname = << "/" >> \o key

PathStyleUrl(url, endpoint, key) ==
    /\ url.host = Tail(endpoint)
    /\ url.pathname = << "/" >> \o BucketName \o << "/" >> \o key

C2_OtherFailuresThrow ==
    (/\ pc = "idle"
     /\ op.name \in Downloads
     /\ response.kind = "http"
     /\ ~ResponseOk(response)
     /\ ~NotFoundAnswer(response))
        => /\ result.kind = "throw"
           /\ Includes(result.message, << ToString(response.status) >>)
           /\ \A code \in {<< "NoSuchBucket" >>, << "AccessDenied" >>, << "InternalError" >>} :
                CarriesCode(response, code) => Includes(result.message, code)
           /\ \A m \in VendorMessages :
                CarriesMessage(response, m) => Includes(result.message, m)

\* C3: deleteObject completes without throwing when the key does not exist,
\* also when the server answers the DELETE with 404 NoSuchKey.
C3_DeleteOfMissingKeySucceeds ==
    (/\ pc = "idle"
     /\ op.name = "deleteObject"
     /\ store0[op.key] = Absent
     /\ response.origin = "server")
        => result.kind = "return"

\* C4: objectExists returns true when the HEAD is answered 2xx, false when it
\* is answered 404 for a missing key, with or without an error body, and
\* throws on every other failure.
C4_ExistsContract ==
    (pc = "idle" /\ op.name = "objectExists" /\ response.kind # "none")
        => /\ (response.kind = "http" /\ ResponseOk(response)) => result = Return(Bool(TRUE))
           /\ (response.origin = "server" /\ response.status = 404)
                => result = Return(Bool(FALSE))
           /\ (response.kind = "transport" \/ response.status \in {401, 403, 500})
                => result.kind = "throw"

Succeeded(exchange) == exchange.status \in 200..299

\* C6: in a move the DELETE of the source is sent only after the copy was
\* answered 2xx, and a move that fails, in the copy or in the delete, leaves
\* the source object in place with the content it had.
C6_FailedMoveKeepsSource ==
    op.name = "move"
        => /\ \A i \in DOMAIN log :
                log[i].method = << "DELETE" >>
                    => \E j \in 1..(i - 1) : log[j].method = << "PUT" >> /\ Succeeded(log[j])
           /\ (pc = "fetch" /\ request.method = << "DELETE" >>)
                => \E j \in DOMAIN log : log[j].method = << "PUT" >> /\ Succeeded(log[j])
           /\ (pc = "idle" /\ result.kind = "throw" /\ store0[op.src] # Absent)
                => store[op.src] = store0[op.src]

C6_Witness ==
    /\ pc = "idle"
    /\ op.name = "move"
    /\ op.src # op.dst
    /\ Len(log) = 2
    /\ Succeeded(log[1])
    /\ ~Succeeded(log[2])
    /\ result.kind = "throw"
    /\ store0[op.src] # Absent
    /\ store0[op.dst] # store0[op.src]
    /\ store[op.src] = store0[op.src]
    /\ store[op.dst] = store0[op.src]

\* C7: after a move of a to b (a # b, a present) has succeeded, exists(a) is
\* false, exists(b) is true and reading b gives the content a had.
C7_MoveEndToEnd ==
    (pc = "idle" /\ moved.valid /\ moved.src # moved.dst /\ response.origin = "server")
        => /\ (op.name = "objectExists" /\ op.key = moved.src)
                => result = Return(Bool(FALSE))
           /\ (op.name = "objectExists" /\ op.key = moved.dst)
                => result = Return(Bool(TRUE))
           /\ (op.name = "downloadObjectAsString" /\ op.key = moved.dst)
                => result = Return(Val("text", TextDecode(moved.content)))

\* the names listed after SignedHeaders= in an Authorization header
SignedHeaderNames(authorization) ==
    LET from == IndexOf(authorization, ", SignedHeaders=", 1)
        to == IndexOf(authorization, ", Signature=", 1)
        list == Split(SubSeq(authorization, from + 1, to - 1), ";")
    IN  {list[i] : i \in DOMAIN list}

\* C8: every request s3Request sends has a host header equal to the host of
\* the URL requested, an x-amz-content-sha256 and an x-amz-date header; the
\* three are in SignedHeaders, and so is every sent header but Authorization.
C8_SentHeadersAreSigned ==
    pc = "fetch"
        => LET sent == request.headers
               signed == SignedHeaderNames(ObjGet(sent, H_Authorization))
           IN  /\ ObjHas(sent, H_Authorization)
               /\ ObjGet(sent, H_host) = ParseURL(UrlToString(request.url)).host
               /\ ObjHas(sent, H_x_amz_content_sha256)
               /\ ObjHas(sent, H_x_amz_date)
               /\ {H_host, H_x_amz_content_sha256, H_x_amz_date} \subseteq signed
               /\ \A i \in DOMAIN sent :
                    sent[i][1] # H_Authorization => toLowerCase(sent[i][1]) \in signed

C8_Witness ==
    /\ pc = "fetch"
    /\ op.name = "copyObject"
    /\ ObjHas(request.headers, H_x_amz_copy_source)
    /\ H_x_amz_copy_source \in SignedHeaderNames(ObjGet(request.headers, H_Authorization))
    /\ ObjGet(request.headers, H_host) = request.url.host

\* C9 as stated: path-style when forcePathStyle is set, virtual-hosted
\* otherwise, whatever the endpoint host name is.
C9_StyleByFlagOnly ==
    pc = "fetch"
        => IF config.forcePathStyle = "true"
           THEN PathStyleUrl(request.url, config.endpoint, ObjectKey(op))
           ELSE VirtualHostedUrl(request.url, config.endpoint, ObjectKey(op))

\* C9 amended: path-style when forcePathStyle is set or the endpoint contains
\* digitaloceanspaces.com or r2.cloudflarestorage.com, virtual-hosted otherwise.
C9_StyleByFlagOrHost ==
    pc = "fetch"
        => IF \/ config.forcePathStyle = "true"
              \/ Includes(config.endpoint, << "digitaloceanspaces", ".", "com" >>)
              \/ Includes(config.endpoint, << "r2", ".", "cloudflarestorage", ".", "com" >>)
           THEN PathStyleUrl(request.url, config.endpoint, ObjectKey(op))
           ELSE VirtualHostedUrl(request.url, config.endpoint, ObjectKey(op))

C9_Witness ==
    /\ pc = "fetch"
    /\ config.forcePathStyle = "undefined"
    /\ Includes(config.endpoint, << "digitaloceanspaces", ".", "com" >>)
    /\ PathStyleUrl(request.url, config.endpoint, ObjectKey(op))
    /\ ObjectKey(op) # << >>

Distinct(list) == \A i, j \in DOMAIN list : i # j => list[i] # list[j]

\* the header names of the canonical header block of a canonical request
CanonicalHeaderNames(canonicalRequest) ==
    LET lines == Split(canonicalRequest, "\n")
        block == SubSeq(lines, 4, Len(lines) - 3)
    IN  [i \in DOMAIN block |-> SubSeq(block[i], 1, IndexOf(block[i], ":", 1) - 1)]

\* C10: after signRequest, for any header mapping, the lower-cased names in
\* the canonical header block and in SignedHeaders are pairwise distinct.
C10_CanonicalNamesDistinct ==
    signOut.done
        => /\ Distinct(CanonicalHeaderNames(signOut.steps.canonicalRequest))
           /\ Distinct(Split(SubSeq(signOut.steps.authorization,
                                    IndexOf(signOut.steps.authorization, ", SignedHeaders=", 1) + 1,
                                    IndexOf(signOut.steps.authorization, ", Signature=", 1) - 1),
                             ";"))

Reorder(list, p) == [i \in DOMAIN list |-> list[p[i]]]

UpperOf ==
    [c \in {LowerChars[j] : j \in DOMAIN LowerChars} |->
        UpperChars[CHOOSE j \in DOMAIN LowerChars : LowerChars[j] = c]]

toUpperCase(s) == [i \in DOMAIN s |-> IF s[i] \in DOMAIN UpperOf THEN UpperOf[s[i]] ELSE s[i]]

\* the mapping m with each name kept, lower-cased or upper-cased as f says
Recase(m, f) ==
    [i \in DOMAIN m |->
        << CASE f[i] = "lower" -> toLowerCase(m[i][1])
             [] f[i] = "upper" -> toUpperCase(m[i][1])
             [] OTHER -> m[i][1],
           m[i][2] >>]

IsMapping(m) == \A i, j \in DOMAIN m : i # j => m[i][1] # m[j][1]

\* C11: createCanonicalHeaders gives the same canonical header string and the
\* same signed-header list for every re-ordered copy and for every re-cased
\* copy of the header mapping signRequest canonicalizes.
C11_CanonicalHeadersIgnoreOrderAndCase ==
    signOut.done
        => LET m == signOut.steps.headers
               canonical == createCanonicalHeaders(m)
           IN  /\ \A p \in Permutations(DOMAIN m) :
                    createCanonicalHeaders(Reorder(m, p)) = canonical
               /\ \A f \in [DOMAIN m -> {"same", "lower", "upper"}] :
                    IsMapping(Recase(m, f)) => createCanonicalHeaders(Recase(m, f)) = canonical

\* the byte values of the characters query parameters are made of, ascending
ByteOrder ==
    << "-", "0", "1", "2", "3", "4", "5", "6", "7", "8", "9" >> \o UpperChars \o LowerChars

ByteRank ==
    [c \in {ByteOrder[i] : i \in DOMAIN ByteOrder} |->
        CHOOSE i \in DOMAIN ByteOrder : ByteOrder[i] = c]

RECURSIVE CompareBytes(_, _)
CompareBytes(a, b) ==
    IF Len(a) = 0 /\ Len(b) = 0 THEN 0
    ELSE IF Len(a) = 0 THEN -1
    ELSE IF Len(b) = 0 THEN 1
    ELSE IF ByteRank[a[1]] < ByteRank[b[1]] THEN -1
    ELSE IF ByteRank[a[1]] > ByteRank[b[1]] THEN 1
    ELSE CompareBytes(Tail(a), Tail(b))

CompareEntriesBytewise(a, b) ==
    IF a[1] # b[1] THEN CompareBytes(a[1], b[1]) ELSE CompareBytes(a[2], b[2])

\* the canonical query string: the third line of a canonical request
CanonicalQueryOf(canonicalRequest) == Split(canonicalRequest, "\n")[3]

\* C12, first part: the canonical query string signRequest signs is the same
\* for every ordering of the query parameters of the URL.
C12_QueryStringIgnoresOrder ==
    signOut.done
        => LET url == signIn.request.url
           IN  \A p \in Permutations(DOMAIN url.searchParams) :
                  createCanonicalQueryString(
                      [url EXCEPT !.searchParams = Reorder(url.searchParams, p)])
                    = CanonicalQueryOf(signOut.steps.canonicalRequest)

\* C12: the canonical query string is the same for every ordering of the
\* query parameters, and it is the name=value pairs joined with &, sorted
\* ascending by name and then by value in byte-wise order.
C12_QueryStringSortedBytewise ==
    signOut.done
        => LET sorted == Sort(signIn.request.url.searchParams, CompareEntriesBytewise)
           IN  /\ C12_QueryStringIgnoresOrder
               /\ CanonicalQueryOf(signOut.steps.canonicalRequest)
                    = Join([i \in DOMAIN sorted |->
                              encodeURIComponent(sorted[i][1]) \o << "=" >>
                                  \o encodeURIComponent(sorted[i][2])], << "&" >>)

RECURSIVE SumOfSizes(_)
SumOfSizes(list) ==
    IF list = << >> THEN 0 ELSE list[1].sizeBytes + SumOfSizes(Tail(list))

\* C16: a Cache created with maxSize n >= 1 never stores more than n entries.
C16_SizeWithinMaxSize ==
    cache.maxSize # NoLimit => Len(cache.entries) <= cache.maxSize

C16_Witness ==
    /\ call.name = "set"
    /\ cache.maxSize = 2
    /\ Len(call.before.entries) = 2
    /\ EntryIndex(call.before, call.key) = 0
    /\ Len(cache.entries) = 2
    /\ EntryIndex(cache, call.key) = 2

\* C17: for a Cache created with maxMemorySize m, neither the sizes of the
\* stored entries together nor the memorySize it reports exceed m.
C17_MemoryWithinLimit ==
    cache.maxMemorySize # NoLimit
        => /\ SumOfSizes(cache.entries) <= cache.maxMemorySize
           /\ cache.currentMemorySize <= cache.maxMemorySize

\* the entry of an earlier set of key that get(key) finds too old
Expired(c, key, now) ==
    /\ c.ttl > 0
    /\ EntryIndex(c, key) # 0
    /\ now - c.entries[EntryIndex(c, key)].timestamp > c.ttl

\* C18: with a ttl, get(key) of an entry stored more than ttl milliseconds
\* before returns null and removes that entry, so that size drops by one and
\* memorySize by the size of the entry; no other get returns null for a
\* stored key.
C18_ExpiredEntryIsDropped ==
    call.name = "get"
        => IF Expired(call.before, call.key, call.now)
           THEN LET i == EntryIndex(call.before, call.key)
                IN  /\ call.value = Null
                    /\ cache.entries = RemoveAt(call.before.entries, i)
                    /\ Len(cache.entries) = Len(call.before.entries) - 1
                    /\ cache.currentMemorySize
                         = call.before.currentMemorySize - call.before.entries[i].sizeBytes
           ELSE /\ cache = call.before
                /\ EntryIndex(cache, call.key) # 0
                     => call.value = cache.entries[EntryIndex(cache, call.key)].content

C18_Witness ==
    /\ call.name = "get"
    /\ Expired(call.before, call.key, call.now)
    /\ Len(call.before.entries) = 2
    /\ Len(cache.entries) = 1
    /\ call.value = Null

Position(list, key) == CHOOSE i \in DOMAIN list : list[i] = key

\* C19: every entry a set removes was read or written less recently than
\* every entry the set leaves in place (the one it writes aside).
C19_EvictsLeastRecentlyUsed ==
    call.name = "set"
        => \A i \in DOMAIN call.before.entries :
             LET gone == call.before.entries[i].key
             IN  (EntryIndex(cache, gone) = 0)
                   => \A j \in DOMAIN cache.entries :
                        LET kept == cache.entries[j].key
                        IN  kept # call.key
                              => Position(call.usedBefore, gone) < Position(call.usedBefore, kept)

\* what the storage plugin holds for the path of the read just made, as the
\* read of that name returns it
StoredNow ==
    LET bucket == getBucket(bucketInstances, call.bucket)
    IN  IF call.name = "readFile" THEN PluginRead(pluginInstances, bucket, call.key)
        ELSE PluginReadBuffer(pluginInstances, bucket, call.key)

\* C15: with caching enabled, whatever includeReads and includeWrites are,
\* a readFile or readBuffer on a bucket whose writeFile, deleteFile and
\* moveFile calls all succeeded returns what the storage plugin holds for
\* the path: the last content written, null after a delete.
C15_ReadsReturnStoredContent ==
    (call.name \in {"readFile", "readBuffer"} /\ call.succeeded)
        => call.outcome = Return(StoredNow)

\* the bucket instance the name of the getCacheStats call resolves to has
\* caching enabled
StatsBucketCaches ==
    /\ BucketFound(bucketInstances, call.bucket)
    /\ CacheEnabled(getBucket(bucketInstances, call.bucket).cacheOptions)

\* C20: getCacheStats(name) returns null when the bucket instance of that
\* name (the default bucket without a name) does not exist or has caching
\* not enabled, and the figures of that instance's own cache otherwise.
C20_StatsOfOwnCacheOrNull ==
    call.name = "getCacheStats"
        => IF StatsBucketCaches
           THEN LET own == InstanceName(bucketInstances, call.bucket)
                IN  /\ ObjHas(bucketCaches, own)
                    /\ call.value = CacheStats(ObjGet(bucketCaches, own))
           ELSE call.value = Null

\* C21: getBucket() without a name returns the instance registered first
\* among those still registered (used lists them in the order of their
\* initialisation) and throws when there is none; after resetBucket(name)
\* getBucket(name) throws and there is no cache for name; after resetBucket()
\* listBuckets() is empty and there is no cache at all.
C21_RegistryAfterInitAndReset ==
    /\ (call.name = "getBucket" /\ Falsy(call.bucket))
         => IF used = << >> THEN call.outcome = Throw(NotInitialized)
            ELSE call.outcome = Return(Val("object", used[1]))
    /\ (call.name = "resetBucket" /\ ~Falsy(call.bucket))
         => /\ ~BucketFound(bucketInstances, call.bucket)
            /\ ~ObjHas(bucketCaches, call.bucket)
    /\ (call.name = "resetBucket" /\ Falsy(call.bucket))
         => /\ listBuckets(bucketInstances) = << >>
            /\ bucketCaches = << >>

C21_Witness ==
    /\ call.name = "getBucket"
    /\ Falsy(call.bucket)
    /\ Len(bucketInstances) = 2
    /\ Len(bucketCaches) = 1
    /\ call.outcome = Return(Val("object", BucketB))

\* what readFile, fileExists and listFiles return on the instance name now
Observed(name) ==
    << [path \in Paths |->
          readFile(bucketInstances, bucketCaches, pluginInstances, path, name, clock).outcome],
       [path \in Paths |->
          fileExists(bucketInstances, bucketCaches, pluginInstances, path, name).outcome],
       listFiles(bucketInstances, bucketCaches, pluginInstances, Undefined, name).outcome >>

DeclaresXmlOrJson(contentType) ==
    /\ ~Falsy(contentType)
    /\ \/ Includes(contentType, << "application/xml" >>)
       \/ Includes(contentType, << "application/json" >>)

\* C23: on a successful response that has a body, s3Request returns raw bytes
\* whenever the declared content type is neither XML nor JSON (also when none
\* is declared) and text only when it is XML or JSON; on status 204 or an
\* absent body it returns an empty result
C23_BytesUnlessXmlOrJson ==
    (pc = "settle" /\ response.kind = "http" /\ ResponseOk(response))
      => IF response.status = 204 \/ ~response.hasBody
         THEN s3Request(response) = Return(EmptyObject)
         ELSE IF DeclaresXmlOrJson(response.contentType)
         THEN s3Request(response) = Return(Val("text", TextDecode(response.body)))
         ELSE s3Request(response) = Return(Val("bytes", response.body))

\* C24: after any sequence of set, get, delete and clear calls the memorySize
\* the cache reports equals the sum of sizeBytes over the entries it stores,
\* and is never negative
C24_MemorySizeIsSumOfSizes ==
    /\ cache.currentMemorySize = SumOfSizes(cache.entries)
    /\ cache.currentMemorySize >= 0

\* the cached content for path is absent or what the storage holds for path
CacheAgreesWithStore(path) ==
    LET bucket == getBucket(bucketInstances, BucketA)
        entries == getCache(bucketCaches, BucketA)
        at == EntryIndex(entries, CacheKey(bucket, path))
    IN  at # 0 => /\ ObjHas(Files(pluginInstances, bucket), path)
                  /\ StoredBytes(entries.entries[at].content) = ObjGet(Files(pluginInstances, bucket), path)

\* C25: when readFile(path) runs concurrently with writeFile(path, c) or
\* deleteFile(path) on the same bucket with read caching enabled, then for
\* every interleaving at their await points, once both calls have completed
\* the cache entry for path is absent or equal to the content the store holds
C25_CacheCoherentAfterRace ==
    (/\ Len(tasks) = 2
     /\ tasks[1].path = tasks[2].path
     /\ \A t \in DOMAIN tasks : tasks[t].pc = "done")
      => CacheAgreesWithStore(tasks[1].path)

\* what the storage of the bucket holds for path, Null when it holds nothing
StoredAt(bucketName, path) ==
    PluginReadBuffer(pluginInstances, getBucket(bucketInstances, bucketName), path)

\* what readFile(path) and fileExists(path) would return now
ReadsAt(bucketName, path) ==
    << readFile(bucketInstances, bucketCaches, pluginInstances, path, bucketName, clock).outcome,
       fileExists(bucketInstances, bucketCaches, pluginInstances, path, bucketName).outcome >>

\* the answers that agree with the storage
StoreAt(bucketName, path) ==
    << Return(PluginRead(pluginInstances, getBucket(bucketInstances, bucketName), path)),
       Return(Bool(StoredAt(bucketName, path) # Null)) >>

\* C26: moveFile(p, p), a move of an existing file onto its own path, leaves
\* the file present with its content unchanged, and a later readFile(p) and
\* fileExists(p) agree with the store
C26_MoveOntoItselfKeepsFile ==
    [][\A path \in Paths, b \in {Undefined, BucketA} :
         (/\ call'.name = "moveFile"
          /\ call'.bucket = b
          /\ call'.key = << path, path >>
          /\ StoredAt(b, path) # Null)
           => /\ StoredAt(b, path)' = StoredAt(b, path)
              /\ ReadsAt(b, path)' = StoreAt(b, path)']_vars

\* C27: getAccessToken(credentials) only returns a token that was obtained
\* for those credentials, never one cached for another clientEmail or scope,
\* and a cached token only while it has more than one minute left before its
\* recorded expiry
C27_TokenOfOwnCredentials ==
    (call.name = "getAccessToken" /\ call.outcome.kind = "return")
      => /\ call.outcome.accessToken.iss = call.credentials.clientEmail
         /\ call.outcome.accessToken.scope = ScopeOf(call.credentials)
         /\ call.outcome.fromCache
              => call.before.defined /\ call.before.expiresAt > call.now + OneMinute

\* C28: PluginRegistry.getPlugin(config) returns a plugin that was created
\* from that same config: after a bucket is initialised again with the same
\* provider and bucketName but different credentials, the plugin returned
\* operates with the new settings, not the earlier ones
C28_PluginOfSameConfig ==
    call.name = "getPlugin" => call.plugin.credentials = call.config.credentials

\* C29: for every request signed by signRequest, the timestamp line of the
\* string-to-sign equals the value of the x-amz-date header that is signed and
\* sent, and the date in the credential scope equals the date part of that
\* timestamp, both when the caller supplied an x-amz-date header and when
\* signRequest injected it
C29_TimestampIsDateHeader ==
    signOut.done
      => LET lines == Split(signOut.steps.stringToSign, "\n")
             sent == ObjGet(signOut.signed, H_x_amz_date)
         IN  /\ lines[2] = sent
             /\ lines[3][1] = sent[1]

\* the last line of the canonical request of the request on the wire
SignedPayloadHash ==
    LET lines == Split(createCanonicalRequest(
                           [request EXCEPT !.headers = MapDelete(@, H_Authorization)]), "\n")
    IN  lines[Len(lines)]

\* C30: for every request sent by s3Request (no body, empty body, string body
\* or byte body) the value of the x-amz-content-sha256 header equals the
\* payload hash in the last line of the canonical request; with no body both
\* are the fixed SHA-256 of the empty string
C30_ContentHashIsSignedHash ==
    pc = "fetch"
      => /\ ObjGet(request.headers, H_x_amz_content_sha256) = SignedPayloadHash
         /\ request.body = NoBody => SignedPayloadHash = EmptyPayloadHash

C30_Witness ==
    /\ pc = "fetch"
    /\ op.name = "uploadObject"
    /\ request.body = Val("bytes", << "c", "1" >>)
    /\ ObjGet(request.headers, H_x_amz_content_sha256) = hexEncode(sha256(<< "c", "1" >>))
    /\ SignedPayloadHash # EmptyPayloadHash

====
